---------------------------- MODULE StreamsProofs ----------------------------
(***************************************************************************)
(* Proofs about streams: their references are counted right, what programs  *)
(* wrote is in the files or on its way there, and what they have read ahead *)
(* was there.                                                               *)
(***************************************************************************)
EXTENDS Streams, WellFoundedInduction, FiniteSetTheorems, TLAPS

-----------------------------------------------------------------------------
(* Sets of natural numbers.                                                *)

\* A nonempty set of natural numbers has a least element: a loop that looks for
\* the first of something finds it, if it is there.
LEMMA Least ==
  ASSUME NEW S \in SUBSET Nat, S # {}
  PROVE  \E x \in S : \A y \in S : x <= y
<1>1. PICK x \in S : \A y \in S : ~(<<y, x>> \in OpToRel(<, Nat))
  BY NatLessThanWellFounded, WFMin, Zenon
<1>2. \A y \in S : ~(y < x)
  BY <1>1 DEF OpToRel
<1> QED
  BY <1>2

-----------------------------------------------------------------------------
(* The invariant, for a program k with streams F.                           *)

Shape(k) ==
  k = [f \in {"at", "call", "fds", "refcnt", "file"} |-> k[f]]
CallShape(w) == {"op", "fd", "u", "from"} \subseteq DOMAIN w

Prog(k, F) ==
  /\ Shape(k)
  /\ k.fds \in [Fds -> F \cup {None}]
  /\ k.refcnt \in [F -> Nat \cup {None}]

Held(k, u) == {fd \in Fds : k.fds[fd] = u}

Counted(k, F) ==
  \A u \in F : IF k.refcnt[u] = None THEN Held(k, u) = {}
               ELSE k.refcnt[u] = Cardinality(Held(k, u))

\* Every reference that is there, except those in X, is some descriptor's.
InUse(k, F, X) == \A u \in F \ X : k.refcnt[u] # None => Held(k, u) # {}

\* The stream a call is about is there.
About(k, F) == CallShape(k.call) /\ k.call.u \in F /\ k.refcnt[k.call.u] # None

Plain == {"read", "gets", "write", "seek", "tell", "sync"}

\* dup2() is closing its second descriptor; the first one is another.
Closing(k, F) ==
  /\ InUse(k, F, {})
  /\ k.call.fd \in Fds /\ k.fds[k.call.fd] = k.call.u
  /\ k.call.from # None => \E g \in Fds : g # k.call.fd /\ k.fds[g] = k.call.from

\* What Assign() needs: a descriptor that is not open, and a reference.
Assignable(k, F) ==
  /\ k.call.fd \in Fds /\ k.fds[k.call.fd] = None
  /\ k.call.from # None => k.call.from \in F /\ Held(k, k.call.from) # {}

\* The last descriptor of a stream is closed, and the stream has still to be.
LastClosed(k, F) ==
  /\ InUse(k, F, {k.call.u}) /\ Held(k, k.call.u) = {}
  /\ Assignable(k, F)

CallOK(k, F) ==
  /\ About(k, F)
  /\ \/ k.call.op \in Plain /\ InUse(k, F, {})
     \/ k.call.op = "close" /\ Closing(k, F)
     \/ k.call.op = "fclose" /\ LastClosed(k, F)
  /\ \/ k.at = "flush"
     \/ k.at = "fill" /\ k.call.op \in {"read", "gets"}
     \/ k.at = "stat" /\ k.call.op = "seek"

ProgInv(k, F) ==
  /\ Prog(k, F)
  /\ Counted(k, F)
  /\ IF k.at = "idle" THEN InUse(k, F, {}) ELSE CallOK(k, F)

CountsInv ==
  /\ DOMAIN p \subseteq Clients
  /\ \A c \in DOMAIN p : ProgInv(p[c], Fptrs(c))

-----------------------------------------------------------------------------
(* The parts of a program after each kind of change.                        *)

LEMMA WithIs ==
  ASSUME NEW k, Shape(k), NEW s
  PROVE  LET l == With(k, s)
         IN  Shape(l) /\ l.at = k.at /\ l.call = k.call /\ l.fds = k.fds /\ l.refcnt = k.refcnt
<1> DEFINE m == [k.file EXCEPT ![k.call.u] = s]
<1>1. With(k, s) = [k EXCEPT !.file = m]
  BY DEF With
<1> HIDE DEF m
<1> QED
  BY <1>1 DEF Shape

LEMMA ReturnIs ==
  ASSUME NEW k, Shape(k)
  PROVE  LET l == Return(k)
         IN  Shape(l) /\ l.at = "idle" /\ l.fds = k.fds /\ l.refcnt = k.refcnt
BY DEF Shape, Return

LEMMA CallIs ==
  ASSUME NEW k, Shape(k), NEW w
  PROVE  LET l == [k EXCEPT !.call = w]
         IN  Shape(l) /\ l.at = k.at /\ l.call = w /\ l.fds = k.fds /\ l.refcnt = k.refcnt
BY DEF Shape

LEMMA GotoIs ==
  ASSUME NEW k, Shape(k), CallShape(k.call), NEW at, NEW op
  PROVE  LET l == Goto(k, at, op)
         IN  /\ Shape(l) /\ l.at = at /\ l.fds = k.fds /\ l.refcnt = k.refcnt
             /\ CallShape(l.call) /\ l.call.op = op /\ l.call.u = k.call.u
             /\ l.call.fd = k.call.fd /\ l.call.from = k.call.from
<1> DEFINE w == [k.call EXCEPT !.op = op]
<1>1. Goto(k, at, op) = [k EXCEPT !.at = at, !.call = w]
  BY DEF Goto
<1>2. /\ CallShape(w) /\ w.op = op /\ w.u = k.call.u /\ w.fd = k.call.fd /\ w.from = k.call.from
  BY DEF CallShape
<1> HIDE DEF w
<1> QED
  BY <1>1, <1>2 DEF Shape

\* A call that changes no descriptor goes on, or returns.
Goes(k, l) ==
  /\ Shape(l) /\ l.fds = k.fds /\ l.refcnt = k.refcnt
  /\ \/ l.at = "idle"
     \/ /\ CallShape(l.call) /\ l.call.u = k.call.u
        /\ \/ l.at = "flush" /\ l.call.op \in Plain
           \/ l.at = "fill" /\ l.call.op \in {"read", "gets"}
           \/ l.at = "stat" /\ l.call.op = "seek"

\* What it needs: the stream it is about.
Ready(k, F) == Prog(k, F) /\ Counted(k, F) /\ InUse(k, F, {}) /\ About(k, F)

LEMMA GoesInv ==
  ASSUME NEW k, NEW F, Ready(k, F), NEW l, Goes(k, l)
  PROVE  ProgInv(l, F)
<1>1. \A u : Held(l, u) = Held(k, u)
  BY DEF Goes, Held
<1>2. Prog(l, F) /\ Counted(l, F) /\ InUse(l, F, {})
  BY <1>1 DEF Goes, Ready, Prog, Counted, InUse
<1>3. ASSUME l.at # "idle" PROVE CallOK(l, F)
  <2>1. About(l, F)
    BY <1>3 DEF Goes, Ready, About
  <2>2. /\ l.call.op \in Plain
        /\ \/ l.at = "flush"
           \/ l.at = "fill" /\ l.call.op \in {"read", "gets"}
           \/ l.at = "stat" /\ l.call.op = "seek"
    BY <1>3 DEF Goes, Plain
  <2> QED
    BY <1>2, <2>1, <2>2 DEF CallOK
<1> QED
  BY <1>2, <1>3 DEF ProgInv

\* The state of a stream matters to none of this.
LEMMA WithInv ==
  ASSUME NEW k, NEW F, ProgInv(k, F), NEW s
  PROVE  ProgInv(With(k, s), F)
<1> DEFINE l == With(k, s)
<1>1. Shape(l) /\ l.at = k.at /\ l.call = k.call /\ l.fds = k.fds /\ l.refcnt = k.refcnt
  BY WithIs DEF ProgInv, Prog
<1> HIDE DEF l
<1>2. \A u : Held(l, u) = Held(k, u)
  BY <1>1 DEF Held
<1>3. Prog(l, F) /\ Counted(l, F) /\ \A X : InUse(l, F, X) <=> InUse(k, F, X)
  BY <1>1, <1>2 DEF ProgInv, Prog, Counted, InUse
<1>4. CallOK(k, F) => CallOK(l, F)
  <2>1. About(k, F) => About(l, F)
    BY <1>1 DEF About
  <2>2. Closing(k, F) => Closing(l, F)
    BY <1>1, <1>3 DEF Closing
  <2>3. LastClosed(k, F) => LastClosed(l, F)
    BY <1>1, <1>2, <1>3 DEF LastClosed, Assignable
  <2> QED
    BY <1>1, <1>3, <2>1, <2>2, <2>3 DEF CallOK
<1> QED
  BY <1>1, <1>3, <1>4 DEF ProgInv, l

-----------------------------------------------------------------------------
(* Reading and writing.                                                     *)

LEMMA DeliverGoes ==
  ASSUME NEW k, Shape(k), CallShape(k.call), k.call.op \in {"read", "gets"}
  PROVE  Goes(k, Deliver(k))
<1> DEFINE s     == FileOf(k)
           items == Min({k.call.n, Len(s.in) \div k.call.size})
           lines == {i \in 1..items : k.call.op = "gets" /\ s.in[i] = NL}
           m     == IF lines # {} THEN Min(lines) ELSE items * k.call.size
           rest  == SubSeq(s.in, m + 1, Len(s.in))
           moved == rest \o [i \in 1..IF rest = <<>> THEN 0 ELSE m |-> Garbage]
           s1    == [s EXCEPT !.in = rest, !.pos = @ + m, !.where = @ + m]
           s2    == [s1 EXCEPT !.in = moved]
           w     == [k.call EXCEPT !.n = @ - items]
           k1    == [k EXCEPT !.call = w]
<1>1. \/ Deliver(k) = Return(With(k1, s1))
      \/ Deliver(k) = Goto(With(k1, s2), "fill", k.call.op)
  BY Zenon DEF Deliver
<1>2. CallShape(w) /\ w.op = k.call.op /\ w.u = k.call.u
  BY DEF CallShape
<1> HIDE DEF w, s1, s2
<1>3. Shape(k1) /\ k1.call = w /\ k1.fds = k.fds /\ k1.refcnt = k.refcnt
  BY CallIs
<1> HIDE DEF k1
<1>4. CASE Deliver(k) = Return(With(k1, s1))
  <2> DEFINE l == With(k1, s1)
  <2>1. Shape(l) /\ l.fds = k.fds /\ l.refcnt = k.refcnt
    BY <1>3, WithIs
  <2> HIDE DEF l
  <2>2. Goes(k, Return(l))
    BY <2>1, ReturnIs DEF Goes
  <2> QED
    BY <1>4, <2>2 DEF l
<1>5. CASE Deliver(k) = Goto(With(k1, s2), "fill", k.call.op)
  <2> DEFINE l == With(k1, s2)
  <2>1. Shape(l) /\ l.fds = k.fds /\ l.refcnt = k.refcnt /\ l.call = w
    BY <1>3, WithIs
  <2> HIDE DEF l
  <2> DEFINE q == Goto(l, "fill", k.call.op)
  <2>2. /\ Shape(q) /\ q.at = "fill" /\ q.fds = k.fds /\ q.refcnt = k.refcnt
        /\ CallShape(q.call) /\ q.call.op = k.call.op /\ q.call.u = k.call.u
    BY <1>2, <2>1, GotoIs
  <2> HIDE DEF q
  <2>3. Goes(k, q)
    BY <2>2 DEF Goes
  <2> QED
    BY <1>5, <2>3 DEF q, l
<1> QED
  BY <1>1, <1>4, <1>5

LEMMA FitGoes ==
  ASSUME NEW k, Shape(k), CallShape(k.call)
  PROVE  Goes(k, Fit(k))
<1> DEFINE s     == FileOf(k)
           chunk == Min({Len(k.call.rest), BufSize - s.index})
           s1    == [s EXCEPT !.buf = [i \in DOMAIN @ |->
                       IF i - s.index \in 1..chunk THEN k.call.rest[i - s.index] ELSE @[i]],
                     !.index = @ + chunk]
           l     == With(k, s1)
           w     == [l.call EXCEPT !.rest = SubSeq(@, chunk + 1, Len(@))]
           k1    == [l EXCEPT !.call = w]
<1>1. Fit(k) = Return(k1) \/ Fit(k) = Goto(k1, "flush", "write")
  BY Zenon DEF Fit
<1> HIDE DEF s1
<1>2. Shape(l) /\ l.call = k.call /\ l.fds = k.fds /\ l.refcnt = k.refcnt
  BY WithIs
<1> HIDE DEF l
<1>3. CallShape(w) /\ w.u = k.call.u
  BY <1>2 DEF CallShape
<1> HIDE DEF w
<1>4. Shape(k1) /\ k1.call = w /\ k1.fds = k.fds /\ k1.refcnt = k.refcnt
  BY <1>2, CallIs
<1> HIDE DEF k1
<1>5. Goes(k, Return(k1))
  BY <1>4, ReturnIs DEF Goes
<1>6. Goes(k, Goto(k1, "flush", "write"))
  <2> DEFINE q == Goto(k1, "flush", "write")
  <2>1. /\ Shape(q) /\ q.at = "flush" /\ q.fds = k.fds /\ q.refcnt = k.refcnt
        /\ CallShape(q.call) /\ q.call.op = "write" /\ q.call.u = k.call.u
    BY <1>3, <1>4, GotoIs
  <2> HIDE DEF q
  <2>2. Goes(k, q)
    BY <2>1 DEF Goes, Plain
  <2> QED
    BY <2>2 DEF q
<1> QED
  BY <1>1, <1>5, <1>6

-----------------------------------------------------------------------------
(* Closing and duplicating.                                                 *)

LEMMA HeldFinite ==
  ASSUME NEW k, NEW u
  PROVE  IsFiniteSet(Held(k, u)) /\ Cardinality(Held(k, u)) \in Nat
<1>1. IsFiniteSet(Fds)
  BY DescriptorsAssumption, FS_Interval DEF Fds
<1>2. Held(k, u) \subseteq Fds
  BY DEF Held
<1>3. IsFiniteSet(Held(k, u))
  BY <1>1, <1>2, FS_Subset
<1> QED
  BY <1>3, FS_CardinalityType

\* None is no reference.
Refs(F) == F \subseteq Nat

\* A descriptor that is not open gets a reference.
LEMMA HeldOpened ==
  ASSUME NEW k, NEW F, Refs(F), NEW fd \in Fds, NEW u \in F,
         k.fds \in [Fds -> F \cup {None}], k.fds[fd] = None,
         NEW l, l.fds = [k.fds EXCEPT ![fd] = u]
  PROVE  /\ Held(l, u) = Held(k, u) \cup {fd}
         /\ Cardinality(Held(l, u)) = Cardinality(Held(k, u)) + 1
         /\ \A v \in F \ {u} : Held(l, v) = Held(k, v)
<1>1. None \notin F
  BY DescriptorsAssumption DEF Refs
<1>2. Held(l, u) = Held(k, u) \cup {fd} /\ \A v \in F \ {u} : Held(l, v) = Held(k, v)
  BY <1>1 DEF Held
<1>3. fd \notin Held(k, u)
  BY <1>1 DEF Held
<1>4. Cardinality(Held(k, u) \cup {fd}) = Cardinality(Held(k, u)) + 1
  BY <1>3, HeldFinite, FS_AddElement
<1> QED
  BY <1>2, <1>4

\* One that is open is closed.
LEMMA HeldClosed ==
  ASSUME NEW k, NEW F, Refs(F), NEW fd \in Fds, NEW u \in F,
         k.fds \in [Fds -> F \cup {None}], k.fds[fd] = u,
         NEW l, l.fds = [k.fds EXCEPT ![fd] = None]
  PROVE  /\ Held(l, u) = Held(k, u) \ {fd}
         /\ Cardinality(Held(l, u)) = Cardinality(Held(k, u)) - 1
         /\ \A v \in F \ {u} : Held(l, v) = Held(k, v)
<1>1. None \notin F
  BY DescriptorsAssumption DEF Refs
<1>2. Held(l, u) = Held(k, u) \ {fd} /\ \A v \in F \ {u} : Held(l, v) = Held(k, v)
  BY <1>1 DEF Held
<1>3. fd \in Held(k, u)
  BY DEF Held
<1>4. Cardinality(Held(k, u) \ {fd}) = Cardinality(Held(k, u)) - 1
  <2>1. IsFiniteSet(Held(k, u))
    BY HeldFinite
  <2> QED
    BY <1>3, <2>1, FS_RemoveElement, Zenon
<1> QED
  BY <1>2, <1>4

\* What holds when a call is over, but for a reference that dup2() still has to assign.
Over(k, F) == Prog(k, F) /\ Counted(k, F) /\ InUse(k, F, {})

LEMMA OverInv ==
  ASSUME NEW k, NEW F, Over(k, F)
  PROVE  ProgInv(Return(k), F)
<1> DEFINE l == Return(k)
<1>1. Shape(l) /\ l.at = "idle" /\ l.fds = k.fds /\ l.refcnt = k.refcnt
  BY ReturnIs DEF Over, Prog
<1> HIDE DEF l
<1>2. \A u : Held(l, u) = Held(k, u)
  BY <1>1 DEF Held
<1>3. ProgInv(l, F)
  BY <1>1, <1>2 DEF Over, ProgInv, Prog, Counted, InUse
<1> QED
  BY <1>3 DEF l

LEMMA AssignOver ==
  ASSUME NEW k, NEW F, Refs(F), Over(k, F), Assignable(k, F), k.call.from # None
  PROVE  Over(Assign(k), F)
<1> DEFINE fd == k.call.fd
           u  == k.call.from
           l  == Assign(k)
           f  == [k.fds EXCEPT ![fd] = u]
           r  == [k.refcnt EXCEPT ![u] = @ + 1]
<1>1. l = [k EXCEPT !.fds = f, !.refcnt = r]
  BY DEF Assign
<1>2. /\ fd \in Fds /\ u \in F /\ k.fds[fd] = None /\ Held(k, u) # {}
      /\ k.fds \in [Fds -> F \cup {None}] /\ k.refcnt \in [F -> Nat \cup {None}]
  BY DEF Assignable, Over, Prog
<1>3. k.refcnt[u] = Cardinality(Held(k, u)) /\ k.refcnt[u] \in Nat
  BY <1>2, HeldFinite DEF Over, Counted
<1>4. f \in [Fds -> F \cup {None}] /\ r \in [F -> Nat \cup {None}]
  BY <1>2, <1>3
<1>5. Shape(l) /\ l.fds = f /\ l.refcnt = r
  <2> HIDE DEF f, r, l
  <2> QED
    BY <1>1 DEF Over, Prog, Shape
<1> HIDE DEF l
<1>6. /\ Held(l, u) = Held(k, u) \cup {fd}
      /\ Cardinality(Held(l, u)) = Cardinality(Held(k, u)) + 1
      /\ \A v \in F \ {u} : Held(l, v) = Held(k, v)
  BY <1>2, <1>5, HeldOpened
<1>7. r[u] = k.refcnt[u] + 1 /\ \A v \in F \ {u} : r[v] = k.refcnt[v]
  BY <1>2
<1> HIDE DEF f, r, fd, u
<1>8. Counted(l, F)
  <2> SUFFICES ASSUME NEW v \in F
               PROVE  IF l.refcnt[v] = None THEN Held(l, v) = {}
                      ELSE l.refcnt[v] = Cardinality(Held(l, v))
    BY DEF Counted
  <2>1. CASE v = u
    <3>1. l.refcnt[u] = Cardinality(Held(l, u)) /\ l.refcnt[u] # None
      BY <1>3, <1>5, <1>6, <1>7, DescriptorsAssumption
    <3> QED
      BY <2>1, <3>1
  <2>2. CASE v # u
    BY <2>2, <1>5, <1>6, <1>7 DEF Over, Counted
  <2> QED
    BY <2>1, <2>2
<1>9. InUse(l, F, {})
  BY <1>2, <1>5, <1>6, <1>7 DEF Over, InUse
<1> QED
  BY <1>4, <1>5, <1>8, <1>9 DEF Over, Prog, l

LEMMA ClosedInv ==
  ASSUME NEW k, NEW F, Refs(F), Over(k, F), Assignable(k, F)
  PROVE  ProgInv(Closed(k), F)
<1>1. CASE k.call.from # None
  <2>1. Over(Assign(k), F)
    BY <1>1, AssignOver
  <2> QED
    BY <1>1, <2>1, OverInv DEF Closed
<1>2. CASE k.call.from = None
  BY <1>2, OverInv DEF Closed
<1> QED
  BY <1>1, <1>2

\* close() takes the descriptor's reference back, and closes the stream with the last one.
LEMMA CloseInv ==
  ASSUME NEW k, NEW F, Refs(F), Prog(k, F), Counted(k, F), About(k, F), Closing(k, F),
         k.call.op = "close"
  PROVE  ProgInv(Then(k), F)
<1> DEFINE fd == k.call.fd
           u  == k.call.u
           f  == [k.fds EXCEPT ![fd] = None]
           r  == [k.refcnt EXCEPT ![u] = @ - 1]
           l  == [k EXCEPT !.refcnt = r, !.fds = f]
<1>1. Then(k) = IF k.refcnt[u] = 1 THEN Goto(l, "flush", "fclose") ELSE Closed(l)
  BY DEF Then
<1>2. /\ fd \in Fds /\ u \in F /\ k.fds[fd] = u
      /\ k.fds \in [Fds -> F \cup {None}] /\ k.refcnt \in [F -> Nat \cup {None}]
  BY DEF About, Closing, Prog
<1>3. k.refcnt[u] = Cardinality(Held(k, u)) /\ k.refcnt[u] \in Nat
  BY <1>2, HeldFinite DEF About, Counted
<1>4. fd \in Held(k, u) /\ k.refcnt[u] # 0
  <2>1. fd \in Held(k, u)
    BY <1>2 DEF Held
  <2>2. Cardinality(Held(k, u)) # 0
    BY <2>1, HeldFinite, FS_EmptySet
  <2> QED
    BY <2>1, <2>2, <1>3
<1>5. k.refcnt[u] - 1 \in Nat
  BY <1>3, <1>4
<1>6. f \in [Fds -> F \cup {None}] /\ r \in [F -> Nat \cup {None}] /\ f[fd] = None
  BY <1>2, <1>5
<1>7. r[u] = k.refcnt[u] - 1 /\ \A v \in F \ {u} : r[v] = k.refcnt[v]
  BY <1>2
<1>8. \A g \in Fds : g # fd => f[g] = k.fds[g]
  BY <1>2
<1> HIDE DEF f, r
<1>9. Shape(l) /\ l.fds = f /\ l.refcnt = r /\ l.call = k.call
  BY DEF Prog, Shape
<1> HIDE DEF l
<1>10. l.fds = [k.fds EXCEPT ![fd] = None]
  BY <1>9 DEF f
<1>11. /\ Held(l, u) = Held(k, u) \ {fd}
       /\ Cardinality(Held(l, u)) = Cardinality(Held(k, u)) - 1
       /\ \A v \in F \ {u} : Held(l, v) = Held(k, v)
  <2> HIDE DEF fd, u
  <2> QED
    BY <1>2, <1>10, HeldClosed
<1>12. Prog(l, F)
  BY <1>6, <1>9 DEF Prog
<1>13. l.refcnt[u] = Cardinality(Held(l, u)) /\ l.refcnt[u] \in Nat
  BY <1>3, <1>5, <1>7, <1>9, <1>11
<1>14. Counted(l, F)
  <2> SUFFICES ASSUME NEW v \in F
               PROVE  IF l.refcnt[v] = None THEN Held(l, v) = {}
                      ELSE l.refcnt[v] = Cardinality(Held(l, v))
    BY DEF Counted
  <2>1. CASE v = u
    BY <2>1, <1>13, DescriptorsAssumption
  <2>2. CASE v # u
    BY <2>2, <1>7, <1>9, <1>11 DEF Counted
  <2> QED
    BY <2>1, <2>2
<1>15. InUse(l, F, {u})
  BY <1>7, <1>9, <1>11 DEF Closing, InUse
<1>16. Assignable(l, F)
  <2>1. ASSUME k.call.from # None PROVE k.call.from \in F /\ Held(l, k.call.from) # {}
    <3>1. PICK g \in Fds : g # fd /\ k.fds[g] = k.call.from
      BY <2>1 DEF Closing
    <3>2. k.call.from \in F
      BY <2>1, <3>1, <1>2
    <3>3. g \in Held(l, k.call.from)
      BY <3>1, <1>8, <1>9 DEF Held
    <3> QED
      BY <3>2, <3>3
  <2> QED
    BY <2>1, <1>2, <1>6, <1>9 DEF Assignable
<1>17. CASE k.refcnt[u] = 1
  <2> DEFINE q == Goto(l, "flush", "fclose")
  <2>1. /\ Shape(q) /\ q.at = "flush" /\ q.fds = l.fds /\ q.refcnt = l.refcnt
        /\ CallShape(q.call) /\ q.call.op = "fclose" /\ q.call.u = u
        /\ q.call.fd = fd /\ q.call.from = l.call.from /\ l.call.fd = fd
    BY <1>9, GotoIs DEF About
  <2> HIDE DEF q
  <2>2. \A v : Held(q, v) = Held(l, v)
    BY <2>1 DEF Held
  <2>3. Held(l, u) = {}
    <3>1. Cardinality(Held(l, u)) = 0
      BY <1>3, <1>11, <1>17
    <3> QED
      BY <3>1, HeldFinite, FS_EmptySet
  <2>4. Prog(q, F) /\ Counted(q, F)
    BY <2>1, <2>2, <1>12, <1>14 DEF Prog, Counted
  <2>5. About(q, F)
    BY <2>1, <1>2, <1>13, DescriptorsAssumption DEF About
  <2>6. LastClosed(q, F)
    <3>1. InUse(q, F, {q.call.u})
      BY <2>1, <2>2, <1>15 DEF InUse
    <3>2. Assignable(q, F)
      BY <2>1, <2>2, <1>16 DEF Assignable
    <3>3. Held(q, q.call.u) = {}
      BY <2>1, <2>2, <2>3
    <3> QED
      BY <3>1, <3>2, <3>3 DEF LastClosed
  <2>7. CallOK(q, F)
    BY <2>1, <2>5, <2>6 DEF CallOK
  <2>8. ProgInv(q, F)
    BY <2>1, <2>4, <2>7 DEF ProgInv
  <2> QED
    BY <2>8, <1>1, <1>17 DEF q
<1>18. CASE k.refcnt[u] # 1
  <2>1. Held(l, u) # {}
    <3>1. Cardinality(Held(l, u)) # 0
      BY <1>3, <1>4, <1>11, <1>18
    <3> QED
      BY <3>1, FS_EmptySet
  <2>2. Over(l, F)
    BY <2>1, <1>12, <1>14, <1>15 DEF Over, InUse
  <2>3. ProgInv(Closed(l), F)
    BY <2>2, <1>16, ClosedInv
  <2> QED
    BY <2>3, <1>1, <1>18
<1> QED
  BY <1>17, <1>18

\* The stream is closed, and its reference freed.
LEMMA FcloseInv ==
  ASSUME NEW k, NEW F, Refs(F), Prog(k, F), Counted(k, F), About(k, F), LastClosed(k, F),
         k.call.op = "fclose"
  PROVE  ProgInv(Then(k), F)
<1> DEFINE u == k.call.u
           r == [k.refcnt EXCEPT ![u] = None]
           m == [k.file EXCEPT ![u] = None]
           l == [k EXCEPT !.refcnt = r, !.file = m]
<1>1. Then(k) = Closed(l)
  BY DEF Then, Dropped
<1>2. u \in F /\ k.refcnt \in [F -> Nat \cup {None}] /\ Held(k, u) = {}
  BY DEF About, LastClosed, Prog
<1>3. /\ r \in [F -> Nat \cup {None}] /\ r[u] = None
      /\ \A v \in F \ {u} : r[v] = k.refcnt[v]
  BY <1>2
<1> HIDE DEF r, m
<1>4. Shape(l) /\ l.fds = k.fds /\ l.refcnt = r /\ l.call = k.call
  BY DEF Prog, Shape
<1> HIDE DEF l
<1>5. \A v : Held(l, v) = Held(k, v)
  BY <1>4 DEF Held
<1>6. Over(l, F)
  <2>1. Prog(l, F)
    BY <1>3, <1>4 DEF Prog
  <2>2. Counted(l, F)
    <3> SUFFICES ASSUME NEW v \in F
                 PROVE  IF l.refcnt[v] = None THEN Held(l, v) = {}
                        ELSE l.refcnt[v] = Cardinality(Held(l, v))
      BY DEF Counted
    <3>1. CASE v = u
      BY <3>1, <1>2, <1>3, <1>4, <1>5
    <3>2. CASE v # u
      BY <3>2, <1>3, <1>4, <1>5 DEF Counted
    <3> QED
      BY <3>1, <3>2
  <2>3. InUse(l, F, {})
    BY <1>3, <1>4, <1>5 DEF LastClosed, InUse
  <2> QED
    BY <2>1, <2>2, <2>3 DEF Over
<1>7. Assignable(l, F)
  BY <1>4, <1>5 DEF LastClosed, Assignable
<1> QED
  BY <1>1, <1>6, <1>7, ClosedInv

\* Whatever fflush() was called for.
LEMMA ThenInv ==
  ASSUME NEW k, NEW F, Refs(F), ProgInv(k, F), k.at = "flush"
  PROVE  ProgInv(Then(k), F)
<1>1. CallOK(k, F) /\ Prog(k, F) /\ Counted(k, F)
  BY DEF ProgInv
<1>2. Shape(k) /\ CallShape(k.call) /\ About(k, F)
  BY <1>1 DEF CallOK, About, Prog
<1>3. \/ k.call.op \in Plain /\ InUse(k, F, {})
      \/ k.call.op = "close" /\ Closing(k, F)
      \/ k.call.op = "fclose" /\ LastClosed(k, F)
  BY <1>1 DEF CallOK
<1>4. CASE k.call.op \in Plain /\ InUse(k, F, {})
  <2>1. Ready(k, F)
    BY <1>1, <1>2, <1>4 DEF Ready
  <2>2. Goes(k, Return(k))
    BY <1>2, ReturnIs DEF Goes
  <2>3. CASE k.call.op = "write"
    <3>1. Then(k) = Return(k) \/ Then(k) = Fit(k)
      BY <2>3 DEF Then
    <3> QED
      BY <3>1, <2>1, <2>2, <1>2, FitGoes, GoesInv
  <2>4. CASE k.call.op \in {"read", "gets"}
    <3>1. Then(k) = Return(k) \/ Then(k) = Deliver(k)
      BY <2>4 DEF Then
    <3> QED
      BY <3>1, <2>1, <2>2, <2>4, <1>2, DeliverGoes, GoesInv
  <2>5. CASE k.call.op = "seek"
    <3>1. PICK s : Then(k) = Goto(With(k, s), "flush", "tell")
      BY <2>5 DEF Then
    <3> DEFINE l == With(k, s)
               q == Goto(l, "flush", "tell")
    <3>2. Shape(l) /\ l.call = k.call /\ l.fds = k.fds /\ l.refcnt = k.refcnt
      BY <1>2, WithIs
    <3> HIDE DEF l
    <3>3. /\ Shape(q) /\ q.at = "flush" /\ q.fds = k.fds /\ q.refcnt = k.refcnt
          /\ CallShape(q.call) /\ q.call.op = "tell" /\ q.call.u = k.call.u
      BY <1>2, <3>2, GotoIs
    <3> HIDE DEF q
    <3>4. Goes(k, q)
      BY <3>3 DEF Goes, Plain
    <3> QED
      BY <3>1, <3>4, <2>1, GoesInv DEF q, l
  <2>6. CASE k.call.op = "tell"
    <3>1. PICK s : Then(k) = Return(With(k, s))
      BY <2>6 DEF Then
    <3> DEFINE l == With(k, s)
    <3>2. Shape(l) /\ l.fds = k.fds /\ l.refcnt = k.refcnt
      BY <1>2, WithIs
    <3> HIDE DEF l
    <3>3. Goes(k, Return(l))
      BY <3>2, ReturnIs DEF Goes
    <3> QED
      BY <3>1, <3>3, <2>1, GoesInv DEF l
  <2>7. CASE k.call.op = "sync"
    <3>1. Then(k) = Return(k)
      BY <2>7 DEF Then
    <3> QED
      BY <3>1, <2>1, <2>2, GoesInv
  <2> QED
    BY <1>4, <2>3, <2>4, <2>5, <2>6, <2>7 DEF Plain
<1>5. CASE k.call.op = "close" /\ Closing(k, F)
  BY <1>1, <1>2, <1>5, CloseInv
<1>6. CASE k.call.op = "fclose" /\ LastClosed(k, F)
  BY <1>1, <1>2, <1>6, FcloseInv
<1> QED
  BY <1>3, <1>4, <1>5, <1>6

-----------------------------------------------------------------------------
(* The steps of the programs.                                               *)

\* A step of program c.
Moves(c, l) ==
  /\ DOMAIN p' = DOMAIN p /\ p'[c] = l /\ \A d \in DOMAIN p : d # c => p'[d] = p[d]
  /\ ProgInv(l, Fptrs(c))

LEMMA MovesInv ==
  ASSUME CountsInv, NEW c \in DOMAIN p, NEW l, Moves(c, l)
  PROVE  CountsInv'
<1>1. DOMAIN p' = DOMAIN p /\ p'[c] = l /\ \A d \in DOMAIN p : d # c => p'[d] = p[d]
  BY DEF Moves
<1>2. ASSUME NEW d \in DOMAIN p PROVE ProgInv(p'[d], Fptrs(d))
  BY <1>1, <1>2 DEF Moves, CountsInv
<1> QED
  BY <1>1, <1>2 DEF CountsInv

LEMMA RefsAre ==
  ASSUME CountsInv, NEW c \in DOMAIN p
  PROVE  Refs(Fptrs(c)) /\ ProgInv(p[c], Fptrs(c)) /\ Shape(p[c]) /\ c \in Clients
<1>1. c \in Clients /\ ProgInv(p[c], Fptrs(c))
  BY DEF CountsInv
<1>2. NFptrs[c] \in Nat
  BY <1>1, DescriptorsAssumption
<1> QED
  BY <1>1, <1>2 DEF Refs, Fptrs, ProgInv, Prog

\* A descriptor that is open has a stream that is there.
LEMMA OpenIs ==
  ASSUME NEW k, NEW F, Refs(F), ProgInv(k, F), k.at = "idle", NEW fd \in Fds, k.fds[fd] # None
  PROVE  Over(k, F) /\ k.fds[fd] \in F /\ k.refcnt[k.fds[fd]] # None
<1>1. Over(k, F)
  BY DEF ProgInv, Over
<1>2. k.fds[fd] \in F
  BY <1>1 DEF Over, Prog
<1>3. fd \in Held(k, k.fds[fd])
  BY DEF Held
<1> QED
  BY <1>1, <1>2, <1>3 DEF Over, Counted

\* A call that begins.
LEMMA BeginsInv ==
  ASSUME NEW k, NEW F, Refs(F), ProgInv(k, F), k.at = "idle", NEW fd \in Fds, k.fds[fd] # None,
         NEW l, Shape(l), l.fds = k.fds, l.refcnt = k.refcnt,
         CallShape(l.call), l.call.u = k.fds[fd]
  PROVE  Ready(l, F)
<1>1. Over(k, F) /\ k.fds[fd] \in F /\ k.refcnt[k.fds[fd]] # None
  BY OpenIs
<1>2. \A u : Held(l, u) = Held(k, u)
  BY DEF Held
<1>3. Prog(l, F) /\ Counted(l, F) /\ InUse(l, F, {})
  BY <1>1, <1>2 DEF Over, Prog, Counted, InUse
<1> QED
  BY <1>1, <1>3 DEF Ready, About

LEMMA CallingIs ==
  ASSUME NEW c \in DOMAIN p, Shape(p[c]), NEW w, NEW at, Calling(c, w, at)
  PROVE  \E l : /\ p' = [p EXCEPT ![c] = l]
                /\ Shape(l) /\ l.at = at /\ l.call = w
                /\ l.fds = p[c].fds /\ l.refcnt = p[c].refcnt
<1> DEFINE l == [p[c] EXCEPT !.at = at, !.call = w]
<1>1. p' = [p EXCEPT ![c] = l]
  BY DEF Calling
<1>2. Shape(l) /\ l.at = at /\ l.call = w /\ l.fds = p[c].fds /\ l.refcnt = p[c].refcnt
  BY DEF Shape
<1> QED
  BY <1>1, <1>2

LEMMA FlushMoves ==
  ASSUME CountsInv, NEW c \in DOMAIN p, Flush(c)
  PROVE  \E l : Moves(c, l)
<1> DEFINE k == p[c]
<1>1. ProgInv(k, Fptrs(c)) /\ Refs(Fptrs(c)) /\ k.at = "flush"
  BY RefsAre DEF Flush
<1>2. CASE p' = [p EXCEPT ![c] = Then(k)]
  <2>1. ProgInv(Then(k), Fptrs(c))
    BY <1>1, ThenInv
  <2> QED
    BY <1>2, <2>1 DEF Moves
<1>3. CASE \E s : p' = [p EXCEPT ![c] = Then(With(k, s))]
  <2>1. PICK s : p' = [p EXCEPT ![c] = Then(With(k, s))]
    BY <1>3
  <2> DEFINE l == With(k, s)
  <2>2. ProgInv(l, Fptrs(c)) /\ l.at = "flush"
    BY <1>1, WithInv, WithIs DEF ProgInv, Prog
  <2> HIDE DEF l
  <2>3. ProgInv(Then(l), Fptrs(c))
    BY <1>1, <2>2, ThenInv
  <2> QED
    BY <2>1, <2>3 DEF Moves, l
<1> QED
  BY <1>2, <1>3 DEF Flush

LEMMA FillMoves ==
  ASSUME CountsInv, NEW c \in DOMAIN p, Fill(c)
  PROVE  \E l : Moves(c, l)
<1> DEFINE k == p[c]
           F == Fptrs(c)
<1>1. ProgInv(k, F) /\ k.at = "fill" /\ Shape(k)
  BY RefsAre DEF Fill
<1>2. Ready(k, F) /\ CallShape(k.call) /\ k.call.op \in {"read", "gets"}
  BY <1>1 DEF ProgInv, CallOK, Ready, About
<1>3. PICK s, b : \/ p' = [p EXCEPT ![c] = Deliver([With(k, s) EXCEPT !.call.short = b])]
                  \/ p' = [p EXCEPT ![c] = Return(With(k, s))]
  BY DEF Fill
<1> DEFINE l == With(k, s)
<1>4. Shape(l) /\ l.call = k.call /\ l.fds = k.fds /\ l.refcnt = k.refcnt
  BY <1>1, WithIs
<1> HIDE DEF l
<1>5. CASE p' = [p EXCEPT ![c] = Return(l)]
  <2>1. Goes(k, Return(l))
    BY <1>4, ReturnIs DEF Goes
  <2> QED
    BY <2>1, <1>2, <1>5, GoesInv DEF Moves
<1>6. CASE p' = [p EXCEPT ![c] = Deliver([l EXCEPT !.call.short = b])]
  <2> DEFINE w == [l.call EXCEPT !.short = b]
             m == [l EXCEPT !.call = w]
  <2>1. CallShape(w) /\ w.op = k.call.op /\ w.u = k.call.u
    BY <1>2, <1>4 DEF CallShape
  <2> HIDE DEF w
  <2>2. Shape(m) /\ m.call = w /\ m.fds = k.fds /\ m.refcnt = k.refcnt
    BY <1>4, CallIs
  <2>3. p' = [p EXCEPT ![c] = Deliver(m)]
    BY <1>6 DEF w
  <2> HIDE DEF m
  <2>4. Goes(m, Deliver(m))
    BY <1>2, <2>1, <2>2, DeliverGoes
  <2>5. Goes(k, Deliver(m))
    BY <2>1, <2>2, <2>4 DEF Goes
  <2> QED
    BY <2>3, <2>5, <1>2, GoesInv DEF Moves
<1> QED
  BY <1>3, <1>5, <1>6 DEF l

LEMMA StatEndMoves ==
  ASSUME CountsInv, NEW c \in DOMAIN p, StatEnd(c)
  PROVE  \E l : Moves(c, l)
<1> DEFINE k == p[c]
           F == Fptrs(c)
<1>1. ProgInv(k, F) /\ k.at = "stat" /\ Shape(k)
  BY RefsAre DEF StatEnd
<1>2. Ready(k, F) /\ CallShape(k.call)
  BY <1>1 DEF ProgInv, CallOK, Ready, About
<1>3. PICK x : \/ p' = [p EXCEPT ![c] = Goto([k EXCEPT !.call.x = x], "flush", "seek")]
               \/ p' = [p EXCEPT ![c] = Return(k)]
  BY DEF StatEnd
<1>4. CASE p' = [p EXCEPT ![c] = Return(k)]
  <2>1. Goes(k, Return(k))
    BY <1>1, ReturnIs DEF Goes
  <2> QED
    BY <2>1, <1>2, <1>4, GoesInv DEF Moves
<1>5. CASE p' = [p EXCEPT ![c] = Goto([k EXCEPT !.call.x = x], "flush", "seek")]
  <2> DEFINE w == [k.call EXCEPT !.x = x]
             m == [k EXCEPT !.call = w]
             q == Goto(m, "flush", "seek")
  <2>1. CallShape(w) /\ w.u = k.call.u
    BY <1>2 DEF CallShape
  <2>2. p' = [p EXCEPT ![c] = q]
    BY <1>5
  <2> HIDE DEF w
  <2>3. Shape(m) /\ m.call = w /\ m.fds = k.fds /\ m.refcnt = k.refcnt
    BY <1>1, CallIs
  <2> HIDE DEF m
  <2>4. /\ Shape(q) /\ q.at = "flush" /\ q.fds = k.fds /\ q.refcnt = k.refcnt
        /\ CallShape(q.call) /\ q.call.op = "seek" /\ q.call.u = k.call.u
    BY <2>1, <2>3, GotoIs
  <2> HIDE DEF q
  <2>5. Goes(k, q)
    BY <2>4 DEF Goes, Plain
  <2> QED
    BY <2>2, <2>5, <1>2, GoesInv DEF Moves
<1> QED
  BY <1>3, <1>4, <1>5

LEMMA MinIs ==
  ASSUME NEW S \in SUBSET Nat, S # {}
  PROVE  Min(S) \in S
<1>1. \E x \in S : \A y \in S : x <= y
  BY Least
<1> QED
  BY <1>1 DEF Min

LEMMA FreeFdsAre ==
  ASSUME NEW c, FreeFds(c) # {}
  PROVE  Min(FreeFds(c)) \in Fds /\ p[c].fds[Min(FreeFds(c))] = None
<1>1. FreeFds(c) \in SUBSET Nat
  BY DescriptorsAssumption DEF FreeFds, Fds
<1>2. Min(FreeFds(c)) \in FreeFds(c)
  BY <1>1, MinIs
<1> QED
  BY <1>2 DEF FreeFds

\* A new stream has its one descriptor.
LEMMA OpenedInv ==
  ASSUME NEW k, NEW F, Refs(F), ProgInv(k, F), k.at = "idle",
         NEW fd \in Fds, k.fds[fd] = None, NEW u \in F, k.refcnt[u] = None,
         NEW l, Shape(l), l.at = "idle", l.fds = [k.fds EXCEPT ![fd] = u],
         l.refcnt = [k.refcnt EXCEPT ![u] = 1]
  PROVE  ProgInv(l, F)
<1>1. k.fds \in [Fds -> F \cup {None}] /\ k.refcnt \in [F -> Nat \cup {None}]
  BY DEF ProgInv, Prog
<1>2. /\ Held(l, u) = Held(k, u) \cup {fd}
      /\ Cardinality(Held(l, u)) = Cardinality(Held(k, u)) + 1
      /\ \A v \in F \ {u} : Held(l, v) = Held(k, v)
  BY <1>1, HeldOpened
<1>3. Held(k, u) = {} /\ Counted(k, F) /\ InUse(k, F, {})
  BY DEF ProgInv, Counted
<1>4. Cardinality(Held(l, u)) = 1 /\ Held(l, u) # {}
  BY <1>2, <1>3, FS_EmptySet
<1>5. l.refcnt[u] = 1 /\ \A v \in F \ {u} : l.refcnt[v] = k.refcnt[v]
  BY <1>1
<1>6. Prog(l, F)
  BY <1>1 DEF Prog
<1>7. Counted(l, F)
  <2>1. l.refcnt[u] # None /\ l.refcnt[u] = Cardinality(Held(l, u))
    BY <1>4, <1>5, DescriptorsAssumption
  <2>2. \A v \in F \ {u} : IF l.refcnt[v] = None THEN Held(l, v) = {}
                          ELSE l.refcnt[v] = Cardinality(Held(l, v))
    BY <1>2, <1>3, <1>5 DEF Counted
  <2> QED
    BY <2>1, <2>2 DEF Counted
<1>8. InUse(l, F, {})
  BY <1>2, <1>3, <1>4, <1>5 DEF InUse
<1> QED
  BY <1>6, <1>7, <1>8 DEF ProgInv

LEMMA OpenMoves ==
  ASSUME CountsInv, NEW c \in DOMAIN p, NEW f, NEW mode, Open(c, f, mode)
  PROVE  \E l : Moves(c, l)
<1> DEFINE free == Fptrs(c) \ Streaming(c)
           fd == Min(FreeFds(c))
           u  == Min(free)
           s  == Stream(f, mode # "r", "full")
           l  == [p[c] EXCEPT !.fds[fd] = u, !.refcnt[u] = 1, !.file[u] = s]
<1>1. ProgInv(p[c], Fptrs(c)) /\ Refs(Fptrs(c)) /\ Shape(p[c])
  BY RefsAre
<1>2. p[c].at = "idle" /\ FreeFds(c) # {} /\ free # {}
  BY DEF Open
<1>3. fd \in Fds /\ p[c].fds[fd] = None
  BY <1>2, FreeFdsAre
<1>4. u \in Fptrs(c) /\ p[c].refcnt[u] = None
  <2>1. free \in SUBSET Nat
    BY <1>1 DEF Refs
  <2>2. u \in free
    BY <1>2, <2>1, MinIs
  <2> QED
    BY <2>2 DEF Streaming
<1>5. p' = [p EXCEPT ![c] = l]
  BY DEF Open
<1> HIDE DEF fd, u, s
<1>6. /\ Shape(l) /\ l.at = "idle" /\ l.fds = [p[c].fds EXCEPT ![fd] = u]
      /\ l.refcnt = [p[c].refcnt EXCEPT ![u] = 1]
  BY <1>1, <1>2 DEF Shape
<1> HIDE DEF l
<1>7. ProgInv(l, Fptrs(c))
  BY <1>1, <1>2, <1>3, <1>4, <1>6, OpenedInv
<1> QED
  BY <1>5, <1>7 DEF Moves

\* Calls that only name a stream.
LEMMA CallingMoves ==
  ASSUME CountsInv, NEW c \in DOMAIN p, NEW fd \in Fds, Usable(c, fd),
         NEW w, NEW at, Calling(c, w, at), CallShape(w), w.u = p[c].fds[fd],
         \/ at = "flush" /\ w.op \in Plain
         \/ at = "stat" /\ w.op = "seek"
  PROVE  \E l : Moves(c, l)
<1>1. ProgInv(p[c], Fptrs(c)) /\ Refs(Fptrs(c)) /\ Shape(p[c])
  BY RefsAre
<1>2. PICK l : /\ p' = [p EXCEPT ![c] = l]
               /\ Shape(l) /\ l.at = at /\ l.call = w
               /\ l.fds = p[c].fds /\ l.refcnt = p[c].refcnt
  BY <1>1, CallingIs
<1>3. Ready(l, Fptrs(c))
  BY <1>1, <1>2, BeginsInv DEF Usable
<1>4. Goes(l, l)
  BY <1>2 DEF Goes
<1> QED
  BY <1>2, <1>3, <1>4, GoesInv DEF Moves

LEMMA ReadMoves ==
  ASSUME CountsInv, NEW c \in DOMAIN p, NEW fd \in Fds, NEW op \in {"read", "gets"}, NEW item,
         Read(c, fd, op, item)
  PROVE  \E l : Moves(c, l)
<1> DEFINE w == [op |-> op, fd |-> fd, u |-> p[c].fds[fd], from |-> None,
                 size |-> item.size, n |-> item.n, short |-> FALSE]
<1>1. Usable(c, fd) /\ Calling(c, w, "flush")
  BY DEF Read
<1>2. CallShape(w) /\ w.u = p[c].fds[fd] /\ w.op \in Plain
  BY DEF CallShape, Plain
<1> HIDE DEF w
<1> QED
  BY <1>1, <1>2, CallingMoves

LEMMA FlushSyncMoves ==
  ASSUME CountsInv, NEW c \in DOMAIN p, NEW fd \in Fds, FlushSync(c, fd)
  PROVE  \E l : Moves(c, l)
<1> DEFINE w == Of(c, fd, "sync")
<1>1. Usable(c, fd) /\ Calling(c, w, "flush")
  BY DEF FlushSync
<1>2. CallShape(w) /\ w.u = p[c].fds[fd] /\ w.op \in Plain
  BY DEF CallShape, Plain, Of
<1> HIDE DEF w
<1> QED
  BY <1>1, <1>2, CallingMoves

LEMMA SeekMoves ==
  ASSUME CountsInv, NEW c \in DOMAIN p, NEW fd \in Fds, NEW whence, NEW x, Seek(c, fd, whence, x)
  PROVE  \E l : Moves(c, l)
<1> DEFINE k == p[c]
           w == [op |-> "seek", fd |-> fd, u |-> k.fds[fd], from |-> None,
                 whence |-> whence, x |-> x]
           v == [w EXCEPT !.op = "tell"]
           s == [k.file[w.u] EXCEPT !.eof = FALSE]
           m == [k.file EXCEPT ![w.u] = s]
           l == [k EXCEPT !.at = "flush", !.call = v, !.file = m]
<1>1. ProgInv(k, Fptrs(c)) /\ Refs(Fptrs(c)) /\ Shape(k)
  BY RefsAre
<1>2. Usable(c, fd)
  BY DEF Seek
<1>3. /\ CallShape(w) /\ w.u = k.fds[fd] /\ w.op = "seek" /\ w.op \in Plain
      /\ CallShape(v) /\ v.u = k.fds[fd] /\ v.op \in Plain
  BY DEF CallShape, Plain
<1>4. \/ Calling(c, w, "stat") \/ Calling(c, w, "flush")
      \/ p' = [p EXCEPT ![c].at = "flush", ![c].call = v, ![c].file[w.u].eof = FALSE]
  BY DEF Seek
<1> HIDE DEF w, v
<1>5. CASE Calling(c, w, "stat") \/ Calling(c, w, "flush")
  BY <1>2, <1>3, <1>5, CallingMoves
<1>6. CASE p' = [p EXCEPT ![c].at = "flush", ![c].call = v, ![c].file[w.u].eof = FALSE]
  <2>1. DOMAIN p' = DOMAIN p /\ \A d \in DOMAIN p : d # c => p'[d] = p[d]
    BY <1>6
  <2>2. p'[c] = l
    BY <1>1, <1>6 DEF Shape
  <2> HIDE DEF m, s
  <2>3. Shape(l) /\ l.at = "flush" /\ l.call = v /\ l.fds = k.fds /\ l.refcnt = k.refcnt
    BY <1>1 DEF Shape
  <2> HIDE DEF l
  <2>4. Ready(l, Fptrs(c))
    BY <1>1, <1>2, <1>3, <2>3, BeginsInv DEF Usable
  <2>5. Goes(l, l)
    BY <1>3, <2>3 DEF Goes
  <2> QED
    BY <2>1, <2>2, <2>4, <2>5, GoesInv DEF Moves
<1> QED
  BY <1>4, <1>5, <1>6

LEMMA WriteMoves ==
  ASSUME CountsInv, NEW c \in DOMAIN p, NEW fd \in Fds, NEW text, Write(c, fd, text)
  PROVE  \E l : Moves(c, l)
<1> DEFINE w == [op |-> "write", fd |-> fd, u |-> p[c].fds[fd], from |-> None, rest |-> text]
           k == [p[c] EXCEPT !.call = w]
<1>1. ProgInv(p[c], Fptrs(c)) /\ Refs(Fptrs(c)) /\ Shape(p[c])
  BY RefsAre
<1>2. PICK s : p' = [p EXCEPT ![c] = Fit(With(k, s))]
  BY DEF Write
<1>3. Usable(c, fd)
  BY DEF Write
<1>4. CallShape(w) /\ w.u = p[c].fds[fd]
  BY DEF CallShape
<1> HIDE DEF w
<1>5. Shape(k) /\ k.call = w /\ k.fds = p[c].fds /\ k.refcnt = p[c].refcnt
  BY <1>1, CallIs
<1> HIDE DEF k
<1> DEFINE l == With(k, s)
<1>6. Shape(l) /\ l.call = w /\ l.fds = p[c].fds /\ l.refcnt = p[c].refcnt
  BY <1>5, WithIs
<1> HIDE DEF l
<1>7. Ready(l, Fptrs(c))
  BY <1>1, <1>3, <1>4, <1>6, BeginsInv DEF Usable
<1>8. Goes(l, Fit(l))
  BY <1>4, <1>6, FitGoes
<1>9. ProgInv(Fit(l), Fptrs(c))
  BY <1>7, <1>8, GoesInv
<1> QED
  BY <1>2, <1>9 DEF Moves, l

LEMMA CloseMoves ==
  ASSUME CountsInv, NEW c \in DOMAIN p, NEW fd \in Fds, Usable(c, fd), NEW from,
         from # None => \E g \in Fds : g # fd /\ p[c].fds[g] = from,
         NEW w, w = [Of(c, fd, "close") EXCEPT !.from = from], Calling(c, w, "flush")
  PROVE  \E l : Moves(c, l)
<1> DEFINE F == Fptrs(c)
<1>1. ProgInv(p[c], F) /\ Refs(F) /\ Shape(p[c])
  BY RefsAre
<1>2. CallShape(w) /\ w.op = "close" /\ w.fd = fd /\ w.u = p[c].fds[fd] /\ w.from = from
  BY DEF Of, CallShape
<1>3. PICK l : /\ p' = [p EXCEPT ![c] = l]
               /\ Shape(l) /\ l.at = "flush" /\ l.call = w
               /\ l.fds = p[c].fds /\ l.refcnt = p[c].refcnt
  BY <1>1, CallingIs
<1>4. Ready(l, F)
  BY <1>1, <1>2, <1>3, BeginsInv DEF Usable
<1>5. Closing(l, F)
  BY <1>2, <1>3, <1>4 DEF Closing, Ready
<1>6. CallOK(l, F)
  BY <1>2, <1>3, <1>4, <1>5 DEF CallOK, Ready
<1>7. ProgInv(l, F)
  BY <1>3, <1>4, <1>6 DEF ProgInv, Ready
<1> QED
  BY <1>3, <1>7 DEF Moves

LEMMA CloseCallMoves ==
  ASSUME CountsInv, NEW c \in DOMAIN p, NEW fd \in Fds, Close(c, fd)
  PROVE  \E l : Moves(c, l)
<1>1. Of(c, fd, "close") = [Of(c, fd, "close") EXCEPT !.from = None]
  BY DEF Of
<1>2. Usable(c, fd) /\ Calling(c, Of(c, fd, "close"), "flush")
  BY DEF Close
<1> QED
  BY <1>1, <1>2, CloseMoves

\* dup(), and dup2() to a descriptor that is not open.
LEMMA AssignMoves ==
  ASSUME CountsInv, NEW c \in DOMAIN p, NEW fd \in Fds, Usable(c, fd), NEW fd2 \in Fds,
         p[c].fds[fd2] = None,
         p' = [p EXCEPT ![c] =
                 Return(Assign([p[c] EXCEPT !.call = [fd |-> fd2, from |-> p[c].fds[fd]]]))]
  PROVE  \E l : Moves(c, l)
<1> DEFINE F == Fptrs(c)
           w == [fd |-> fd2, from |-> p[c].fds[fd]]
           k == [p[c] EXCEPT !.call = w]
<1>1. ProgInv(p[c], F) /\ Refs(F) /\ Shape(p[c])
  BY RefsAre
<1>2. p' = [p EXCEPT ![c] = Return(Assign(k))]
  OBVIOUS
<1>3. w.fd = fd2 /\ w.from = p[c].fds[fd]
  OBVIOUS
<1> HIDE DEF w
<1>4. Shape(k) /\ k.call = w /\ k.fds = p[c].fds /\ k.refcnt = p[c].refcnt
  BY <1>1, CallIs
<1> HIDE DEF k
<1>5. Over(p[c], F) /\ w.from \in F /\ w.from # None
  BY <1>1, <1>3, OpenIs DEF Usable
<1>6. \A u : Held(k, u) = Held(p[c], u)
  BY <1>4 DEF Held
<1>7. Over(k, F)
  BY <1>4, <1>5, <1>6 DEF Over, Prog, Counted, InUse
<1>8. Assignable(k, F)
  <2>1. fd \in Held(k, w.from)
    BY <1>3, <1>4 DEF Held
  <2> QED
    BY <2>1, <1>3, <1>4, <1>5 DEF Assignable
<1>9. ProgInv(Return(Assign(k)), F)
  BY <1>1, <1>4, <1>5, <1>7, <1>8, AssignOver, OverInv
<1> QED
  BY <1>2, <1>9 DEF Moves

LEMMA DupMoves ==
  ASSUME CountsInv, NEW c \in DOMAIN p, NEW fd \in Fds, Dup(c, fd)
  PROVE  \E l : Moves(c, l)
<1>1. Usable(c, fd) /\ FreeFds(c) # {}
  BY DEF Dup
<1>2. Min(FreeFds(c)) \in Fds /\ p[c].fds[Min(FreeFds(c))] = None
  BY <1>1, FreeFdsAre
<1> QED
  BY <1>1, <1>2, AssignMoves DEF Dup

LEMMA Dup2Moves ==
  ASSUME CountsInv, NEW c \in DOMAIN p, NEW fd \in Fds, NEW fd2 \in Fds, Dup2(c, fd, fd2)
  PROVE  \E l : Moves(c, l)
<1>1. Usable(c, fd) /\ fd # fd2
  BY DEF Dup2
<1>2. CASE p[c].fds[fd2] = None
  <2>1. p' = [p EXCEPT ![c] =
                Return(Assign([p[c] EXCEPT !.call = [fd |-> fd2, from |-> p[c].fds[fd]]]))]
    BY <1>2 DEF Dup2
  <2> QED
    BY <1>1, <1>2, <2>1, AssignMoves
<1>3. CASE p[c].fds[fd2] # None
  <2> DEFINE from == p[c].fds[fd]
             w == [Of(c, fd2, "close") EXCEPT !.from = from]
  <2>1. Calling(c, w, "flush")
    BY <1>3 DEF Dup2
  <2>2. Usable(c, fd2)
    BY <1>1, <1>3 DEF Usable
  <2>3. \E g \in Fds : g # fd2 /\ p[c].fds[g] = from
    BY <1>1
  <2> HIDE DEF from
  <2> QED
    BY <2>1, <2>2, <2>3, CloseMoves
<1> QED
  BY <1>2, <1>3

LEMMA SetVBufMoves ==
  ASSUME CountsInv, NEW c \in DOMAIN p, NEW fd \in Fds, NEW mode, SetVBuf(c, fd, mode)
  PROVE  \E l : Moves(c, l)
<1> DEFINE k == p[c]
           u == k.fds[fd]
<1>1. ProgInv(k, Fptrs(c)) /\ Refs(Fptrs(c)) /\ Shape(k)
  BY RefsAre
<1>2. Usable(c, fd)
  BY DEF SetVBuf
<1>3. p' = [p EXCEPT ![c].file[u].mode = mode, ![c].file[u].index = 0]
  BY DEF SetVBuf
<1>4. DOMAIN p' = DOMAIN p /\ \A d \in DOMAIN p : d # c => p'[d] = p[d]
  BY <1>3
<1> HIDE DEF u
<1> DEFINE q == p'[c]
<1>5. q = [k EXCEPT !.file[u].mode = mode, !.file[u].index = 0]
  BY <1>3
<1> HIDE DEF q
<1>6. Shape(q) /\ q.at = k.at /\ q.call = k.call /\ q.fds = k.fds /\ q.refcnt = k.refcnt
  <2> HIDE DEF k
  <2> QED
    BY <1>1, <1>5 DEF Shape
<1>7. \A v : Held(q, v) = Held(k, v)
  BY <1>6 DEF Held
<1>8. ProgInv(q, Fptrs(c))
  BY <1>1, <1>2, <1>6, <1>7 DEF ProgInv, Prog, Counted, InUse, Usable
<1> QED
  BY <1>4, <1>8 DEF Moves, q

LEMMA NewProgramInv ==
  ASSUME NEW c \in Clients
  PROVE  ProgInv(NewProgram(c), Fptrs(c))
<1> DEFINE l == NewProgram(c)
           S == DOMAIN Standard[c]
           F == Fptrs(c)
<1>1. S \subseteq Fds /\ (\A x \in S : x \in Nat /\ x + 1 \in F) /\ F \subseteq Nat \ {0}
  BY DescriptorsAssumption DEF Fds, Fptrs
<1> HIDE DEF F
<1>2. /\ Shape(l) /\ l.at = "idle"
      /\ l.fds = [fd \in Fds |-> IF fd \in S THEN fd + 1 ELSE None]
      /\ l.refcnt = [u \in F |-> IF u - 1 \in S THEN 1 ELSE None]
  BY DEF NewProgram, Shape, F
<1> HIDE DEF l, S
<1>3. Prog(l, F)
  BY <1>1, <1>2 DEF Prog
<1>4. \A u \in F : Held(l, u) = IF u - 1 \in S THEN {u - 1} ELSE {}
  <2> SUFFICES ASSUME NEW u \in F
               PROVE  Held(l, u) = IF u - 1 \in S THEN {u - 1} ELSE {}
    OBVIOUS
  <2>1. u \in Nat /\ None # u
    BY <1>1, DescriptorsAssumption
  <2>2. \A fd \in Fds : l.fds[fd] = u <=> fd \in S /\ fd = u - 1
    BY <1>1, <1>2, <2>1
  <2> QED
    BY <2>2, <1>1 DEF Held
<1>5. \A u \in F : IF u - 1 \in S THEN Cardinality(Held(l, u)) = 1 /\ l.refcnt[u] = 1
                   ELSE l.refcnt[u] = None
  BY <1>2, <1>4, FS_Singleton
<1>6. Counted(l, F) /\ InUse(l, F, {})
  BY <1>4, <1>5, DescriptorsAssumption DEF Counted, InUse
<1> QED
  BY <1>2, <1>3, <1>6 DEF ProgInv, l, F

LEMMA ExitMoves ==
  ASSUME CountsInv, NEW c \in DOMAIN p, Exit(c)
  PROVE  \E l : Moves(c, l)
<1>1. c \in Clients
  BY RefsAre
<1>2. ProgInv(NewProgram(c), Fptrs(c))
  BY <1>1, NewProgramInv
<1> QED
  BY <1>2 DEF Exit, Moves

LEMMA CountsInit == Init => CountsInv
<1> SUFFICES ASSUME Init PROVE CountsInv
  OBVIOUS
<1>1. PICK group \in Groups : p = [c \in group |-> NewProgram(c)]
  BY DEF Init
<1>2. group \subseteq Clients
  BY DescriptorsAssumption
<1> QED
  BY <1>1, <1>2, NewProgramInv DEF CountsInv

LEMMA CountsNext == CountsInv /\ [Next]_vars => CountsInv'
<1> SUFFICES ASSUME CountsInv, [Next]_vars PROVE CountsInv'
  OBVIOUS
<1>1. CASE UNCHANGED vars
  BY <1>1 DEF vars, CountsInv
<1>2. ASSUME NEW c \in DOMAIN p, Steps(c) \/ Call(c) PROVE CountsInv'
  <2>1. CASE Steps(c)
    BY <2>1, FlushMoves, FillMoves, StatEndMoves, MovesInv DEF Steps
  <2>2. CASE \E o \in Opens[c] : Open(c, o.fid, o.mode)
    BY <2>2, OpenMoves, MovesInv
  <2>3. CASE \E fd \in Fds, op \in Ops[c] \cap {"read", "gets"}, i \in Items :
               (op = "gets" => i.size = 1) /\ Read(c, fd, op, i)
    BY <2>3, ReadMoves, MovesInv
  <2>4. CASE \E fd \in Fds, t \in Texts : Write(c, fd, t)
    BY <2>4, WriteMoves, MovesInv
  <2>5. CASE \E fd \in Fds, s \in Seeks : Seek(c, fd, s.whence, s.x)
    BY <2>5, SeekMoves, MovesInv
  <2>6. CASE \E fd \in Fds : Dup(c, fd) \/ Close(c, fd) \/ FlushSync(c, fd)
    BY <2>6, DupMoves, CloseCallMoves, FlushSyncMoves, MovesInv
  <2>7. CASE \E fd \in Fds, fd2 \in Fds : Dup2(c, fd, fd2)
    BY <2>7, Dup2Moves, MovesInv
  <2>8. CASE \E fd \in Fds, m \in Modes : SetVBuf(c, fd, m)
    BY <2>8, SetVBufMoves, MovesInv
  <2>9. CASE Exit(c)
    BY <2>9, ExitMoves, MovesInv
  <2> QED
    BY <1>2, <2>1, <2>2, <2>3, <2>4, <2>5, <2>6, <2>7, <2>8, <2>9 DEF Call
<1> QED
  BY <1>1, <1>2 DEF Next

\* Every open descriptor has a stream that is there, whose count is that of the descriptors that
\* have it, and programs leave no stream without one (dup(), dup2(), close()).
THEOREM CountsAgreeCorrect == Spec => []CountsAgree
<1>1. CountsInv => CountsAgree
  <2> SUFFICES ASSUME CountsInv, NEW c \in DOMAIN p, NEW u \in Fptrs(c)
               PROVE  IF p[c].refcnt[u] = None THEN Holders(c, u) = {}
                      ELSE /\ p[c].refcnt[u] = Cardinality(Holders(c, u))
                           /\ p[c].at = "idle" => Holders(c, u) # {}
    BY DEF CountsAgree
  <2>1. Holders(c, u) = Held(p[c], u)
    BY DEF Holders, Held
  <2>2. ProgInv(p[c], Fptrs(c))
    BY DEF CountsInv
  <2> QED
    BY <2>1, <2>2 DEF ProgInv, Counted, InUse
<1> QED
  BY <1>1, CountsInit, CountsNext, PTL DEF Spec

-----------------------------------------------------------------------------
(* What streams hold.  Stream s of a program that has still to put rest into *)
(* its buffer, and that has or has not to tell its position to lseek(), when *)
(* the files are fs, lg is what the programs know of them and h what has     *)
(* been in them.                                                            *)

IsSeq(q) == q \in Seq(Range(q))

\* fread() moves what it has not used to the front of the buffer correctly when programs read one
\* item at a time, or items of one character (stdio.c:281-285).
Simple == \A i \in Items : i.size = 1 \/ i.n = 1

StreamOK(s) ==
  /\ s = [f \in {"fid", "writes", "pos", "where", "eof", "err", "mode", "buf", "index", "in"} |-> s[f]]
  /\ s.fid \in FileNo /\ s.pos \in Nat /\ s.index \in 0..BufSize
  /\ s.buf = [i \in 1..BufSize |-> s.buf[i]]
  /\ IsSeq(s.in)
  /\ ~s.writes => s.index = 0

\* What is read ahead was in the file there.
Ahead(s, h) == \A i \in 1..Len(s.in) : <<s.pos + i - 1, s.in[i]>> \in h[s.fid]

\* What is known of a file is there.
Matches(known, cells) ==
  \A x \in Places : known[x] # None => x < Len(cells) /\ cells[x + 1] = known[x]

\* A file once what is pending is written.
Written(cells, x, text) == IF text = <<>> THEN cells ELSE Put(cells, x, text)

StreamInv(s, rest, telling, fs, lg, h) ==
  /\ StreamOK(s)
  /\ IsSeq(rest) /\ (rest # <<>> => s.writes)
  /\ Simple /\ ~s.writes => Ahead(s, h)
  /\ s.writes /\ s.err =>
       /\ Matches(lg[s.fid], fs[s.fid].cells)
       /\ s.index # 0 => lg[s.fid] = NoLog
  /\ s.writes /\ ~s.err =>
       /\ Matches(lg[s.fid], Written(fs[s.fid].cells, s.pos, Out(s) \o rest))
       /\ ~telling => s.where = s.pos + Len(Out(s) \o rest)

Rest(k, u)    == IF k.at # "idle" /\ k.call.u = u /\ k.call.op = "write" THEN k.call.rest ELSE <<>>
Telling(k, u) == k.at # "idle" /\ k.call.u = u /\ k.call.op = "tell"

\* The arguments of a call.
CallData(w) ==
  /\ w.op \in {"read", "gets"} =>
       /\ {"size", "n", "short"} \subseteq DOMAIN w
       /\ w.size \in 1..BufSize /\ w.n \in Nat
       /\ w.op = "gets" => w.size = 1
       /\ Simple => w.size = 1 \/ w.n = 1
  /\ w.op = "write" => "rest" \in DOMAIN w /\ IsSeq(w.rest)
  /\ w.op = "seek" => {"whence", "x"} \subseteq DOMAIN w /\ w.x \in Nat

\* A program.  Its stream is flushed when it reads ahead.
ProgData(k, F, fs, lg, h) ==
  /\ k.file = [u \in F |-> k.file[u]]
  /\ \A u \in F : k.refcnt[u] # None =>
       StreamInv(k.file[u], Rest(k, u), Telling(k, u), fs, lg, h)
  /\ k.at # "idle" => CallData(k.call)
  /\ k.at = "fill" => k.file[k.call.u].index = 0

WritesTo(k, u, f) == k.refcnt[u] # None /\ k.file[u].writes /\ k.file[u].fid = f

OneWriter ==
  \A c, d \in DOMAIN p : \A u \in Fptrs(c), v \in Fptrs(d) : \A f \in FileNo :
    WritesTo(p[c], u, f) /\ WritesTo(p[d], v, f) => c = d /\ u = v

Table(fs) ==
  /\ DOMAIN fs = FileNo
  /\ \A f \in FileNo : "cells" \in DOMAIN fs[f] /\ IsSeq(fs[f].cells)
FilesOK == Table(files)

DataInv ==
  /\ DOMAIN p \in Groups
  /\ FilesOK
  /\ DOMAIN log = FileNo
  /\ \A f \in FileNo : \A i \in 1..Len(files[f].cells) : <<i - 1, files[f].cells[i]>> \in past[f]
  /\ \A f \in FileNo :
       (\A c \in DOMAIN p : \A u \in Fptrs(c) : ~WritesTo(p[c], u, f))
         => Matches(log[f], files[f].cells)
  /\ OneWriter
  /\ \A c \in DOMAIN p : ProgData(p[c], Fptrs(c), files, log, past)

-----------------------------------------------------------------------------
(* Sequences.                                                               *)

LEMMA SeqIs ==
  ASSUME NEW q, IsSeq(q)
  PROVE  Len(q) \in Nat /\ DOMAIN q = 1..Len(q) /\ q = [i \in 1..Len(q) |-> q[i]]
BY DEF IsSeq

LEMMA IsSeqOf ==
  ASSUME NEW n \in Nat, NEW q, q = [i \in 1..n |-> q[i]]
  PROVE  IsSeq(q) /\ Len(q) = n
<1>1. DOMAIN q = 1..n
  OBVIOUS
<1>2. q \in [1..n -> Range(q)]
  BY <1>1 DEF Range
<1> QED
  BY <1>2 DEF IsSeq

LEMMA SeqSame ==
  ASSUME NEW q, NEW r, IsSeq(q), IsSeq(r), Len(q) = Len(r), \A i \in 1..Len(q) : q[i] = r[i]
  PROVE  q = r
BY SeqIs

LEMMA SubIs ==
  ASSUME NEW q, IsSeq(q), NEW m \in Nat, m <= Len(q)
  PROVE  LET r == SubSeq(q, m + 1, Len(q))
         IN  /\ IsSeq(r) /\ Len(r) = Len(q) - m
             /\ \A i \in 1..Len(r) : r[i] = q[m + i]
<1> DEFINE r == SubSeq(q, m + 1, Len(q))
           n == Len(q) - m
<1>1. Len(q) \in Nat /\ n \in Nat
  BY SeqIs
<1>2. r = [i \in 1..n |-> q[m + i]]
  BY <1>1
<1> HIDE DEF r
<1>3. IsSeq(r) /\ Len(r) = n
  <2>1. r = [i \in 1..n |-> r[i]]
    BY <1>2
  <2> QED
    BY <1>1, <2>1, IsSeqOf
<1> QED
  BY <1>2, <1>3 DEF r

LEMMA JoinIs ==
  ASSUME NEW q, NEW r, IsSeq(q), IsSeq(r)
  PROVE  /\ IsSeq(q \o r) /\ Len(q \o r) = Len(q) + Len(r)
         /\ \A i \in 1..Len(q) + Len(r) : (q \o r)[i] = IF i <= Len(q) THEN q[i] ELSE r[i - Len(q)]
<1> DEFINE S == Range(q) \cup Range(r)
<1>1. Len(q) \in Nat /\ Len(r) \in Nat
  BY SeqIs
<1>2. q \in Seq(S) /\ r \in Seq(S)
  <2>1. \A i \in 1..Len(q) : q[i] \in S
    BY SeqIs DEF Range
  <2>2. \A i \in 1..Len(r) : r[i] \in S
    BY SeqIs DEF Range
  <2> HIDE DEF S
  <2> QED
    BY <2>1, <2>2, SeqIs
<1> HIDE DEF S
<1>3. q \o r \in Seq(S) /\ Len(q \o r) = Len(q) + Len(r)
  BY <1>2
<1>4. \A i \in 1..Len(q) + Len(r) : (q \o r)[i] = IF i <= Len(q) THEN q[i] ELSE r[i - Len(q)]
  BY <1>1, <1>2
<1> DEFINE j == q \o r
<1>5. IsSeq(j)
  <2>1. j \in Seq(S)
    BY <1>3
  <2> HIDE DEF j
  <2>2. Len(j) \in Nat /\ j = [i \in 1..Len(j) |-> j[i]]
    BY <2>1
  <2> QED
    BY <2>2, IsSeqOf
<1> QED
  BY <1>3, <1>4, <1>5

LEMMA EmptyIs == IsSeq(<<>>) /\ Len(<<>>) = 0
<1>1. <<>> = [i \in 1..0 |-> <<>>[i]]
  OBVIOUS
<1> QED
  BY <1>1, IsSeqOf

LEMMA EmptyOnly == ASSUME NEW q, IsSeq(q) PROVE q = <<>> <=> Len(q) = 0
  BY SeqIs

LEMMA MaxOfTwo ==
  ASSUME NEW a \in Nat, NEW b \in Nat
  PROVE  Max({a, b}) = IF a <= b THEN b ELSE a
<1> DEFINE m == IF a <= b THEN b ELSE a
<1>1. m \in {a, b} /\ \A y \in {a, b} : m >= y
  OBVIOUS
<1>2. \A x \in {a, b} : (\A y \in {a, b} : x >= y) => x = m
  OBVIOUS
<1> QED
  BY <1>1, <1>2 DEF Max

LEMMA MinOfTwo ==
  ASSUME NEW a \in Int, NEW b \in Int
  PROVE  Min({a, b}) = IF a <= b THEN a ELSE b
<1> DEFINE m == IF a <= b THEN a ELSE b
<1>1. m \in {a, b} /\ \A y \in {a, b} : m <= y
  OBVIOUS
<1>2. \A x \in {a, b} : (\A y \in {a, b} : x <= y) => x = m
  OBVIOUS
<1> QED
  BY <1>1, <1>2 DEF Min

-----------------------------------------------------------------------------
(* Writing to a file.                                                       *)

\* What ramfile_put() leaves: the text where it was put, the rest as it was.
LEMMA PutIs ==
  ASSUME NEW cells, IsSeq(cells), NEW x \in Nat, NEW text, IsSeq(text)
  PROVE  LET q == Put(cells, x, text)
         IN  /\ IsSeq(q)
             /\ Len(q) = IF Len(cells) <= x + Len(text) THEN x + Len(text) ELSE Len(cells)
             /\ \A i \in 1..Len(q) :
                  q[i] = IF i - x \in 1..Len(text) THEN text[i - x]
                         ELSE IF i <= Len(cells) THEN cells[i] ELSE Garbage
<1> DEFINE q == Put(cells, x, text)
           n == IF Len(cells) <= x + Len(text) THEN x + Len(text) ELSE Len(cells)
<1>1. Len(cells) \in Nat /\ Len(text) \in Nat /\ DOMAIN text = 1..Len(text)
  BY SeqIs
<1>2. Max({Len(cells), x + Len(text)}) = n /\ n \in Nat
  BY <1>1, MaxOfTwo
<1> HIDE DEF n
<1>3. q = [i \in 1..n |-> IF i - x \in 1..Len(text) THEN text[i - x]
                          ELSE IF i <= Len(cells) THEN cells[i] ELSE Garbage]
  BY <1>1, <1>2 DEF Put
<1> HIDE DEF q
<1>4. IsSeq(q) /\ Len(q) = n
  <2>1. q = [i \in 1..n |-> q[i]]
    BY <1>3
  <2> QED
    BY <1>2, <2>1, IsSeqOf
<1> QED
  BY <1>3, <1>4 DEF q, n

LEMMA WrittenIs ==
  ASSUME NEW cells, IsSeq(cells), NEW x \in Nat, NEW text, IsSeq(text)
  PROVE  IsSeq(Written(cells, x, text))
BY PutIs DEF Written

\* One text after another is as if they were one.
LEMMA PutTwice ==
  ASSUME NEW cells, IsSeq(cells), NEW x \in Nat, NEW text, IsSeq(text), NEW rest, IsSeq(rest)
  PROVE  Put(Put(cells, x, text), x + Len(text), rest) = Put(cells, x, text \o rest)
<1> DEFINE a == Put(cells, x, text)
           j == text \o rest
           b == Put(a, x + Len(text), rest)
           c == Put(cells, x, j)
<1>1. Len(cells) \in Nat /\ Len(text) \in Nat /\ Len(rest) \in Nat
  BY SeqIs
<1>2. /\ IsSeq(j) /\ Len(j) = Len(text) + Len(rest)
      /\ \A i \in 1..Len(text) + Len(rest) : j[i] = IF i <= Len(text) THEN text[i]
                                                   ELSE rest[i - Len(text)]
  BY JoinIs
<1> HIDE DEF j
<1>3. /\ IsSeq(a)
      /\ Len(a) = IF Len(cells) <= x + Len(text) THEN x + Len(text) ELSE Len(cells)
      /\ \A i \in 1..Len(a) : a[i] = IF i - x \in 1..Len(text) THEN text[i - x]
                                     ELSE IF i <= Len(cells) THEN cells[i] ELSE Garbage
  BY PutIs
<1> HIDE DEF a
<1> DEFINE y == x + Len(text)
<1>4. y \in Nat
  BY <1>1
<1>5. /\ IsSeq(b)
      /\ Len(b) = IF Len(a) <= y + Len(rest) THEN y + Len(rest) ELSE Len(a)
      /\ \A i \in 1..Len(b) : b[i] = IF i - y \in 1..Len(rest) THEN rest[i - y]
                                     ELSE IF i <= Len(a) THEN a[i] ELSE Garbage
  <2> HIDE DEF y
  <2> QED
    BY <1>3, <1>4, PutIs DEF y
<1>6. /\ IsSeq(c)
      /\ Len(c) = IF Len(cells) <= x + Len(j) THEN x + Len(j) ELSE Len(cells)
      /\ \A i \in 1..Len(c) : c[i] = IF i - x \in 1..Len(j) THEN j[i - x]
                                     ELSE IF i <= Len(cells) THEN cells[i] ELSE Garbage
  BY <1>2, PutIs
<1> HIDE DEF b, c
<1>7. Len(b) = Len(c)
  BY <1>1, <1>2, <1>3, <1>5, <1>6
<1>8. ASSUME NEW i \in 1..Len(b) PROVE b[i] = c[i]
  <2>0. i \in Nat \ {0} /\ i <= Len(b)
    BY <1>1, <1>3, <1>5
  <2>1. CASE i - y \in 1..Len(rest)
    <3>1. b[i] = rest[i - y]
      BY <2>1, <1>5
    <3>2. i - x \in 1..Len(j) /\ ~(i - x <= Len(text)) /\ (i - x) - Len(text) = i - y
      BY <2>0, <2>1, <1>1, <1>2
    <3>3. j[i - x] = rest[i - y]
      BY <3>2, <1>2
    <3>4. c[i] = j[i - x]
      BY <3>2, <1>6, <1>7
    <3> QED
      BY <3>1, <3>3, <3>4
  <2>2. CASE i - x \in 1..Len(text)
    <3>1. ~(i - y \in 1..Len(rest)) /\ i \in 1..Len(a)
      BY <2>0, <2>2, <1>1, <1>3
    <3>2. b[i] = text[i - x]
      BY <2>2, <3>1, <1>3, <1>5
    <3>3. i - x \in 1..Len(j) /\ i - x <= Len(text)
      BY <2>2, <1>1, <1>2
    <3>4. c[i] = text[i - x]
      BY <3>3, <1>2, <1>6, <1>7
    <3> QED
      BY <3>2, <3>4
  <2>3. CASE ~(i - y \in 1..Len(rest)) /\ ~(i - x \in 1..Len(text))
    <3>1. ~(i - x \in 1..Len(j))
      BY <2>0, <2>3, <1>1, <1>2
    <3>2. c[i] = IF i <= Len(cells) THEN cells[i] ELSE Garbage
      BY <3>1, <1>6, <1>7
    <3>3. b[i] = IF i <= Len(a) THEN a[i] ELSE Garbage
      BY <2>3, <1>5
    <3>4. i <= Len(a) => i \in 1..Len(a)
      BY <2>0, <1>1, <1>3
    <3>5. i <= Len(cells) => i <= Len(a)
      BY <2>0, <1>1, <1>3
    <3> QED
      BY <2>3, <3>2, <3>3, <3>4, <3>5, <1>3
  <2> QED
    BY <2>1, <2>2, <2>3
<1> QED
  <2>1. b = c
    BY <1>5, <1>6, <1>7, <1>8, SeqSame
  <2> QED
    BY <2>1 DEF a, b, c, j

LEMMA WrittenTwice ==
  ASSUME NEW cells, IsSeq(cells), NEW x \in Nat, NEW text, IsSeq(text), NEW rest, IsSeq(rest)
  PROVE  Written(Written(cells, x, text), x + Len(text), rest) = Written(cells, x, text \o rest)
<1> DEFINE j == text \o rest
<1>1. /\ Len(text) \in Nat /\ Len(rest) \in Nat /\ IsSeq(j) /\ Len(j) = Len(text) + Len(rest)
      /\ (text = <<>> <=> Len(text) = 0) /\ (rest = <<>> <=> Len(rest) = 0)
  BY SeqIs, JoinIs, EmptyOnly
<1>2. j = <<>> <=> Len(j) = 0
  BY <1>1, EmptyOnly
<1>3. (\A i \in 1..Len(text) : j[i] = text[i])
  BY <1>1, JoinIs
<1>4. \A i \in 1..Len(rest) : j[Len(text) + i] = rest[i]
  <2> SUFFICES ASSUME NEW i \in 1..Len(rest) PROVE j[Len(text) + i] = rest[i]
    OBVIOUS
  <2>1. /\ Len(text) + i \in 1..Len(text) + Len(rest) /\ ~(Len(text) + i <= Len(text))
        /\ (Len(text) + i) - Len(text) = i
    BY <1>1
  <2> QED
    BY <2>1, JoinIs
<1>5. Put(Put(cells, x, text), x + Len(text), rest) = Put(cells, x, j)
  BY PutTwice
<1> HIDE DEF j
<1>6. CASE text = <<>>
  <2>1. j = rest
    BY <1>1, <1>4, <1>6, SeqSame
  <2> QED
    BY <1>1, <1>6, <2>1 DEF Written, j
<1>7. CASE rest = <<>>
  <2>1. j = text
    BY <1>1, <1>3, <1>7, SeqSame
  <2> QED
    BY <1>7, <2>1 DEF Written, j
<1>8. CASE text # <<>> /\ rest # <<>>
  <2>1. j # <<>>
    BY <1>1, <1>2, <1>8
  <2> QED
    BY <1>5, <1>8, <2>1 DEF Written, j
<1> QED
  BY <1>6, <1>7, <1>8

-----------------------------------------------------------------------------
(* A stream after each kind of change.                                      *)

LEMMA JoinEmpty ==
  ASSUME NEW q, IsSeq(q)
  PROVE  q \o <<>> = q /\ <<>> \o q = q
<1>1. Len(q) \in Nat
  BY SeqIs
<1> DEFINE a == q \o <<>>
           b == <<>> \o q
<1>2. IsSeq(a) /\ Len(a) = Len(q) /\ \A i \in 1..Len(q) : a[i] = q[i]
  BY <1>1, EmptyIs, JoinIs
<1>3. IsSeq(b) /\ Len(b) = Len(q) /\ \A i \in 1..Len(q) : b[i] = q[i]
  BY <1>1, EmptyIs, JoinIs
<1> HIDE DEF a, b
<1>4. a = q /\ b = q
  BY <1>2, <1>3, SeqSame
<1> QED
  BY <1>4 DEF a, b

LEMMA OutIs ==
  ASSUME NEW s, StreamOK(s)
  PROVE  /\ IsSeq(Out(s)) /\ Len(Out(s)) = s.index
         /\ \A i \in 1..s.index : Out(s)[i] = s.buf[i]
<1> DEFINE q == Out(s)
<1>1. s.index \in Nat /\ s.index <= BufSize
  BY BufSizeAssumption DEF StreamOK
<1>2. q = [i \in 1..s.index |-> s.buf[i]]
  BY <1>1 DEF Out
<1> HIDE DEF q
<1>3. q = [i \in 1..s.index |-> q[i]]
  BY <1>2
<1>4. IsSeq(q) /\ Len(q) = s.index
  BY <1>1, <1>3, IsSeqOf
<1> QED
  BY <1>2, <1>4 DEF q

\* With an empty buffer only the rest is pending.
LEMMA OutEmpty ==
  ASSUME NEW s, StreamOK(s), s.index = 0, NEW rest, IsSeq(rest)
  PROVE  Out(s) \o rest = rest
<1>1. Out(s) = <<>>
  BY OutIs, EmptyOnly
<1> QED
  BY <1>1, JoinEmpty

LEMMA NoLogMatches == ASSUME NEW cells PROVE Matches(NoLog, cells)
  BY DEF Matches, NoLog

LEMMA StreamFrame ==
  ASSUME NEW s, NEW rest, NEW telling, NEW fs, NEW lg, NEW h, NEW gs, NEW mg, NEW i,
         StreamInv(s, rest, telling, fs, lg, h), h[s.fid] \subseteq i[s.fid],
         s.writes => gs[s.fid].cells = fs[s.fid].cells /\ mg[s.fid] = lg[s.fid]
  PROVE  StreamInv(s, rest, telling, gs, mg, i)
<1>1. Ahead(s, h) => Ahead(s, i)
  BY DEF Ahead
<1> QED
  BY <1>1 DEF StreamInv

\* Nothing but the mode and what feof() answers has changed.
LEMMA StreamSame ==
  ASSUME NEW s, NEW rest, NEW telling, NEW fs, NEW lg, NEW h, StreamInv(s, rest, telling, fs, lg, h),
         NEW t, StreamOK(t), t.fid = s.fid, t.writes = s.writes, t.pos = s.pos, t.where = s.where,
         t.err = s.err, t.buf = s.buf, t.index = s.index, t.in = s.in
  PROVE  StreamInv(t, rest, telling, fs, lg, h) /\ StreamInv(t, rest, TRUE, fs, lg, h)
<1>1. Out(t) = Out(s) /\ (Ahead(s, h) => Ahead(t, h))
  BY DEF Out, Ahead
<1> QED
  BY <1>1 DEF StreamInv

\* Nothing is pending: the file is what is known.
LEMMA StreamClean ==
  ASSUME NEW s, NEW telling, NEW fs, NEW lg, NEW h, StreamInv(s, <<>>, telling, fs, lg, h),
         s.writes, s.index = 0
  PROVE  Matches(lg[s.fid], fs[s.fid].cells)
<1>1. Out(s) \o <<>> = <<>>
  BY OutEmpty, EmptyIs DEF StreamInv
<1> QED
  BY <1>1 DEF StreamInv, Written

\* Conversely.
LEMMA CleanStream ==
  ASSUME NEW s, StreamOK(s), NEW telling, NEW fs, NEW lg, NEW h, s.index = 0,
         Simple /\ ~s.writes => Ahead(s, h),
         s.writes => Matches(lg[s.fid], fs[s.fid].cells),
         s.writes /\ ~s.err /\ ~telling => s.where = s.pos
  PROVE  StreamInv(s, <<>>, telling, fs, lg, h)
<1>1. Out(s) \o <<>> = <<>>
  BY OutEmpty, EmptyIs
<1>2. s.pos + Len(<<>>) = s.pos
  BY EmptyIs DEF StreamOK
<1> QED
  BY <1>1, <1>2, EmptyIs DEF StreamInv, Written

\* fread() takes m characters.
LEMMA StreamTaken ==
  ASSUME NEW s, NEW telling, NEW fs, NEW lg, NEW h, StreamInv(s, <<>>, FALSE, fs, lg, h), s.index = 0,
         NEW m \in Nat, m <= Len(s.in),
         NEW new, IsSeq(new), Simple => new = SubSeq(s.in, m + 1, Len(s.in))
  PROVE  StreamInv([s EXCEPT !.in = new, !.pos = @ + m, !.where = @ + m], <<>>, FALSE, fs, lg, h)
<1> DEFINE t == [s EXCEPT !.in = new, !.pos = @ + m, !.where = @ + m]
<1>1. StreamOK(s)
  BY DEF StreamInv
<1>2. /\ t.fid = s.fid /\ t.writes = s.writes /\ t.pos = s.pos + m /\ t.where = s.where + m
      /\ t.err = s.err /\ t.buf = s.buf /\ t.index = s.index /\ t.in = new
      /\ t = [f \in {"fid", "writes", "pos", "where", "eof", "err", "mode", "buf", "index", "in"} |-> t[f]]
  BY <1>1 DEF StreamOK
<1> HIDE DEF t
<1>3. StreamOK(t)
  BY <1>1, <1>2 DEF StreamOK
<1>4. ASSUME Simple, ~t.writes PROVE Ahead(t, h)
  <2>1. Ahead(s, h) /\ IsSeq(s.in)
    BY <1>1, <1>2, <1>4 DEF StreamInv, StreamOK
  <2> DEFINE q == s.in
  <2>2. IsSeq(q) /\ Len(q) \in Nat /\ m <= Len(q) /\ new = SubSeq(q, m + 1, Len(q))
    BY <1>4, <2>1, SeqIs
  <2> HIDE DEF q
  <2>3. Len(new) = Len(q) - m /\ \A i \in 1..Len(new) : new[i] = q[m + i]
    BY <2>2, SubIs
  <2>4. \A i \in 1..Len(new) : m + i \in 1..Len(q)
    BY <2>2, <2>3
  <2>5. \A i \in 1..Len(new) : s.pos + (m + i) - 1 = (s.pos + m) + i - 1
    BY <1>1, <2>2, <2>3 DEF StreamOK
  <2>6. ASSUME NEW i \in 1..Len(new) PROVE <<(s.pos + m) + i - 1, new[i]>> \in h[s.fid]
    <3>1. m + i \in 1..Len(q) /\ new[i] = q[m + i] /\ s.pos + (m + i) - 1 = (s.pos + m) + i - 1
      BY <2>3, <2>4, <2>5
    <3>2. <<s.pos + (m + i) - 1, q[m + i]>> \in h[s.fid]
      BY <2>1, <3>1 DEF Ahead, q
    <3> QED
      BY <3>1, <3>2
  <2> QED
    BY <1>2, <2>6 DEF Ahead
<1>5. s.writes => Matches(lg[s.fid], fs[s.fid].cells)
  BY StreamClean
<1>6. s.writes /\ ~s.err => s.where = s.pos
  <2>1. Out(s) \o <<>> = <<>> /\ Len(<<>>) = 0
    BY <1>1, OutEmpty, EmptyIs
  <2> QED
    BY <1>1, <2>1 DEF StreamInv, StreamOK
<1>7. StreamInv(t, <<>>, FALSE, fs, lg, h)
  BY <1>2, <1>3, <1>4, <1>5, <1>6, CleanStream
<1> QED
  BY <1>7 DEF t

\* fseek() goes elsewhere.
LEMMA StreamMoved ==
  ASSUME NEW s, NEW fs, NEW lg, NEW h, StreamInv(s, <<>>, FALSE, fs, lg, h), s.index = 0 \/ s.err,
         NEW x \in Nat
  PROVE  StreamInv(Moved(s, x), <<>>, TRUE, fs, lg, h)
<1> DEFINE t == Moved(s, x)
<1>1. StreamOK(s)
  BY DEF StreamInv
<1>2. /\ t.fid = s.fid /\ t.writes = s.writes /\ t.pos = x
      /\ t.err = s.err /\ t.buf = s.buf /\ t.index = s.index /\ t.in = <<>>
      /\ t = [f \in {"fid", "writes", "pos", "where", "eof", "err", "mode", "buf", "index", "in"} |-> t[f]]
  BY <1>1 DEF StreamOK, Moved
<1> HIDE DEF t
<1>3. StreamOK(t)
  BY <1>1, <1>2, EmptyIs DEF StreamOK
<1>4. Ahead(t, h)
  BY <1>2, EmptyIs DEF Ahead
<1>5. CASE s.index = 0
  <2>1. s.writes => Matches(lg[s.fid], fs[s.fid].cells)
    BY <1>5, StreamClean
  <2> QED
    BY <1>2, <1>3, <1>4, <1>5, <2>1, CleanStream DEF t
<1>6. CASE s.err
  BY <1>2, <1>3, <1>4, <1>6, EmptyIs DEF StreamInv, t
<1> QED
  BY <1>5, <1>6

\* ftell() tells where it is.
LEMMA StreamTold ==
  ASSUME NEW s, NEW fs, NEW lg, NEW h, StreamInv(s, <<>>, TRUE, fs, lg, h), s.index = 0 \/ s.err
  PROVE  StreamInv([s EXCEPT !.where = s.pos], <<>>, FALSE, fs, lg, h)
<1> DEFINE t == [s EXCEPT !.where = s.pos]
<1>1. StreamOK(s)
  BY DEF StreamInv
<1>2. /\ t.fid = s.fid /\ t.writes = s.writes /\ t.pos = s.pos /\ t.where = s.pos
      /\ t.err = s.err /\ t.buf = s.buf /\ t.index = s.index /\ t.in = s.in
      /\ t = [f \in {"fid", "writes", "pos", "where", "eof", "err", "mode", "buf", "index", "in"} |-> t[f]]
  BY <1>1 DEF StreamOK
<1> HIDE DEF t
<1>3. StreamOK(t)
  BY <1>1, <1>2 DEF StreamOK
<1>4. Ahead(s, h) => Ahead(t, h)
  BY <1>2 DEF Ahead
<1>5. CASE s.index = 0
  <2>1. s.writes => Matches(lg[s.fid], fs[s.fid].cells)
    BY <1>5, StreamClean
  <2>2. Simple /\ ~t.writes => Ahead(t, h)
    BY <1>2, <1>4 DEF StreamInv
  <2> QED
    BY <1>2, <1>3, <1>5, <2>1, <2>2, CleanStream DEF t
<1>6. CASE s.err
  BY <1>2, <1>3, <1>4, <1>6, EmptyIs DEF StreamInv, t
<1> QED
  BY <1>5, <1>6

\* A request of fflush() went well.
LEMMA StreamFlushed ==
  ASSUME NEW s, NEW rest, NEW telling, NEW fs, NEW lg, NEW h, StreamInv(s, rest, telling, fs, lg, h),
         s.index # 0, NEW gs, NEW i, h[s.fid] \subseteq i[s.fid],
         IsSeq(fs[s.fid].cells), gs[s.fid].cells = Put(fs[s.fid].cells, s.pos, Out(s))
  PROVE  StreamInv(Flushed(s), rest, telling, gs, lg, i)
<1> DEFINE t == Flushed(s)
           cells == fs[s.fid].cells
<1>1. StreamOK(s) /\ s.writes /\ IsSeq(rest)
  BY DEF StreamInv, StreamOK
<1>2. s.index \in Nat \ {0} /\ s.index <= BufSize /\ s.pos \in Nat
  BY <1>1, BufSizeAssumption DEF StreamOK
<1>3. /\ t.fid = s.fid /\ t.writes = s.writes /\ t.pos = s.pos + s.index /\ t.where = s.where
      /\ t.err = s.err /\ t.buf = s.buf /\ t.index = 0 /\ t.in = s.in
      /\ t = [f \in {"fid", "writes", "pos", "where", "eof", "err", "mode", "buf", "index", "in"} |-> t[f]]
  BY <1>1 DEF StreamOK, Flushed
<1> HIDE DEF t
<1>4. StreamOK(t)
  BY <1>1, <1>2, <1>3, BufSizeAssumption DEF StreamOK
<1>5. Out(t) \o rest = rest
  BY <1>1, <1>3, <1>4, OutEmpty
<1> DEFINE q == Out(s)
<1>6. IsSeq(q) /\ Len(q) = s.index /\ q # <<>>
  BY <1>1, <1>2, OutIs, EmptyIs
<1>7. IsSeq(q \o rest) /\ Len(q \o rest) = s.index + Len(rest) /\ Len(rest) \in Nat
  BY <1>1, <1>6, JoinIs, SeqIs
<1>8. Written(gs[s.fid].cells, t.pos, rest) = Written(cells, s.pos, q \o rest)
  <2>1. gs[s.fid].cells = Written(cells, s.pos, q) /\ IsSeq(cells)
    BY <1>6 DEF Written
  <2> DEFINE x == s.pos
  <2>2. IsSeq(cells) /\ x \in Nat /\ IsSeq(q) /\ IsSeq(rest)
    BY <1>1, <1>2, <1>6, <2>1
  <2> HIDE DEF q, cells, x
  <2>3. Written(Written(cells, x, q), x + Len(q), rest) = Written(cells, x, q \o rest)
    BY <2>2, WrittenTwice
  <2> QED
    BY <1>3, <1>6, <2>1, <2>3 DEF x
<1>9. CASE s.err
  BY <1>1, <1>2, <1>3, <1>4, <1>9, NoLogMatches DEF StreamInv, t
<1>10. CASE ~s.err
  <2>1. Matches(lg[t.fid], Written(gs[t.fid].cells, t.pos, Out(t) \o rest))
    BY <1>1, <1>3, <1>5, <1>8, <1>10 DEF StreamInv
  <2>2. ~telling => t.where = t.pos + Len(Out(t) \o rest)
    <3>1. ~telling => s.where = s.pos + Len(q \o rest)
      BY <1>1, <1>10 DEF StreamInv
    <3> DEFINE a == Len(q \o rest)
               b == Len(rest)
    <3>2. a = s.index + b /\ b \in Nat /\ (~telling => s.where = s.pos + a)
      BY <1>7, <3>1
    <3> HIDE DEF a
    <3>3. Len(Out(t) \o rest) = b
      BY <1>5
    <3> HIDE DEF b
    <3> QED
      BY <1>2, <1>3, <3>2, <3>3
  <2> HIDE DEF q, cells
  <2> QED
    BY <1>1, <1>3, <1>4, <1>10, <2>1, <2>2 DEF StreamInv, t
<1> QED
  BY <1>9, <1>10

\* It failed.
LEMMA StreamFailed ==
  ASSUME NEW s, NEW rest, NEW telling, NEW fs, NEW lg, NEW h, StreamInv(s, rest, telling, fs, lg, h),
         s.writes, NEW gs, NEW mg, mg[s.fid] = NoLog, NEW i
  PROVE  StreamInv([s EXCEPT !.err = TRUE], rest, telling, gs, mg, i)
<1> DEFINE t == [s EXCEPT !.err = TRUE]
<1>1. StreamOK(s) /\ IsSeq(rest)
  BY DEF StreamInv
<1>2. /\ t.fid = s.fid /\ t.writes = s.writes /\ t.pos = s.pos /\ t.where = s.where
      /\ t.err = TRUE /\ t.buf = s.buf /\ t.index = s.index /\ t.in = s.in
      /\ t = [f \in {"fid", "writes", "pos", "where", "eof", "err", "mode", "buf", "index", "in"} |-> t[f]]
  BY <1>1 DEF StreamOK
<1> HIDE DEF t
<1>3. StreamOK(t)
  BY <1>1, <1>2 DEF StreamOK
<1>4. StreamInv(t, rest, telling, gs, mg, i)
  BY <1>1, <1>2, <1>3, NoLogMatches DEF StreamInv
<1> QED
  BY <1>4 DEF t

\* A request of fread() failed.
LEMMA StreamUnread ==
  ASSUME NEW s, NEW fs, NEW lg, NEW h, StreamInv(s, <<>>, FALSE, fs, lg, h), s.index = 0
  PROVE  StreamInv([s EXCEPT !.err = TRUE], <<>>, FALSE, fs, lg, h)
<1> DEFINE t == [s EXCEPT !.err = TRUE]
<1>1. StreamOK(s)
  BY DEF StreamInv
<1>2. /\ t.fid = s.fid /\ t.writes = s.writes /\ t.pos = s.pos /\ t.where = s.where
      /\ t.err = TRUE /\ t.buf = s.buf /\ t.index = s.index /\ t.in = s.in
      /\ t = [f \in {"fid", "writes", "pos", "where", "eof", "err", "mode", "buf", "index", "in"} |-> t[f]]
  BY <1>1 DEF StreamOK
<1> HIDE DEF t
<1>3. StreamOK(t)
  BY <1>1, <1>2 DEF StreamOK
<1>4. Ahead(s, h) => Ahead(t, h)
  BY <1>2 DEF Ahead
<1>5. s.writes => Matches(lg[s.fid], fs[s.fid].cells)
  BY StreamClean
<1>6. StreamInv(t, <<>>, FALSE, fs, lg, h)
  BY <1>1, <1>2, <1>3, <1>4, <1>5, CleanStream DEF StreamInv
<1> QED
  BY <1>6 DEF t

\* It went well.
LEMMA StreamFilled ==
  ASSUME NEW s, NEW fs, NEW lg, NEW h, StreamInv(s, <<>>, FALSE, fs, lg, h), s.index = 0,
         NEW v, IsSeq(v), NEW e,
         \A i \in 1..Len(v) : <<s.pos + Len(s.in) + i - 1, v[i]>> \in h[s.fid]
  PROVE  StreamInv([s EXCEPT !.in = @ \o v, !.eof = @ \/ e], <<>>, FALSE, fs, lg, h)
<1> DEFINE q == s.in
           j == q \o v
           t == [s EXCEPT !.in = j, !.eof = s.eof \/ e]
<1>1. StreamOK(s)
  BY DEF StreamInv
<1>2. IsSeq(q) /\ Len(q) \in Nat /\ Len(v) \in Nat
  BY <1>1, SeqIs DEF StreamOK
<1>3. IsSeq(j) /\ Len(j) = Len(q) + Len(v)
      /\ \A i \in 1..Len(j) : j[i] = IF i <= Len(q) THEN q[i] ELSE v[i - Len(q)]
  <2> HIDE DEF q
  <2> QED
    BY <1>2, JoinIs
<1> HIDE DEF j
<1>4. /\ t.fid = s.fid /\ t.writes = s.writes /\ t.pos = s.pos /\ t.where = s.where
      /\ t.err = s.err /\ t.buf = s.buf /\ t.index = s.index /\ t.in = j
      /\ t = [f \in {"fid", "writes", "pos", "where", "eof", "err", "mode", "buf", "index", "in"} |-> t[f]]
  BY <1>1 DEF StreamOK
<1> HIDE DEF t
<1>5. StreamOK(t)
  BY <1>1, <1>3, <1>4 DEF StreamOK
<1>6. ASSUME Ahead(s, h) PROVE Ahead(t, h)
  <2> SUFFICES ASSUME NEW i \in 1..Len(j)
               PROVE  <<s.pos + i - 1, j[i]>> \in h[s.fid]
    BY <1>4 DEF Ahead
  <2>1. CASE i <= Len(q)
    BY <1>2, <1>3, <1>6, <2>1 DEF Ahead
  <2>2. CASE i > Len(q)
    <3> DEFINE n == i - Len(q)
    <3>1. n \in 1..Len(v) /\ j[i] = v[n]
      BY <1>2, <1>3, <2>2
    <3>2. s.pos + Len(q) + n - 1 = s.pos + i - 1
      BY <1>1, <1>2 DEF StreamOK
    <3> HIDE DEF n
    <3> QED
      BY <3>1, <3>2
  <2> QED
    BY <1>2, <1>3, <2>1, <2>2
<1>7. s.writes => Matches(lg[s.fid], fs[s.fid].cells)
  BY StreamClean
<1>8. s.writes /\ ~s.err => s.where = s.pos
  <2>1. Out(s) \o <<>> = <<>> /\ Len(<<>>) = 0
    BY <1>1, OutEmpty, EmptyIs
  <2> QED
    BY <1>1, <2>1 DEF StreamInv, StreamOK
<1>9. StreamInv(t, <<>>, FALSE, fs, lg, h)
  BY <1>4, <1>5, <1>6, <1>7, <1>8, CleanStream DEF StreamInv
<1> QED
  BY <1>9 DEF t, j

\* write() tells the programs where the text goes.
LEMMA StreamWrites ==
  ASSUME NEW s, NEW fs, NEW lg, NEW h, StreamInv(s, <<>>, FALSE, fs, lg, h), s.writes, ~s.err,
         IsSeq(fs[s.fid].cells), NEW text, IsSeq(text), text # <<>>, NEW mg,
         mg[s.fid] = [x \in Places |-> IF x - s.where \in 0..Len(text) - 1 THEN text[x - s.where + 1]
                                       ELSE lg[s.fid][x]]
  PROVE  StreamInv([s EXCEPT !.where = @ + Len(text)], text, FALSE, fs, mg, h)
<1> DEFINE t == [s EXCEPT !.where = @ + Len(text)]
           q == Out(s)
           cells == fs[s.fid].cells
           x0 == s.pos
           n == Len(text)
           w == s.where
           new == mg[s.fid]
           old == lg[s.fid]
<1>1. StreamOK(s) /\ n \in Nat
  BY SeqIs DEF StreamInv
<1>2. s.index \in Nat /\ x0 \in Nat
  BY <1>1, BufSizeAssumption DEF StreamOK
<1>3. /\ t.fid = s.fid /\ t.writes = s.writes /\ t.pos = s.pos /\ t.where = w + n
      /\ t.err = s.err /\ t.buf = s.buf /\ t.index = s.index /\ t.in = s.in
      /\ t = [f \in {"fid", "writes", "pos", "where", "eof", "err", "mode", "buf", "index", "in"} |-> t[f]]
  BY <1>1 DEF StreamOK
<1> HIDE DEF t
<1>4. StreamOK(t)
  BY <1>1, <1>3 DEF StreamOK
<1>5. Out(t) = q
  BY <1>3 DEF Out
<1>6. IsSeq(q) /\ Len(q) = s.index
  BY <1>1, OutIs
<1>7. q \o <<>> = q
  BY <1>6, JoinEmpty
<1>8. Matches(old, Written(cells, x0, q)) /\ w = x0 + Len(q)
  BY <1>7 DEF StreamInv
<1>9. IsSeq(cells) /\ new = [x \in Places |-> IF x - w \in 0..n - 1 THEN text[x - w + 1] ELSE old[x]]
  OBVIOUS
<1> HIDE DEF q, cells, x0, w, new, old, n
<1>10. IsSeq(q \o text) /\ Len(q \o text) = Len(q) + n
  BY <1>1, <1>6, JoinIs DEF n
<1> DEFINE c1 == Written(cells, x0, q)
           c2 == Written(cells, x0, q \o text)
<1>11. Written(c1, w, text) = c2
  <2>1. IsSeq(cells) /\ x0 \in Nat /\ IsSeq(q) /\ IsSeq(text)
    BY <1>2, <1>6, <1>9
  <2> HIDE DEF c1, c2
  <2>2. Written(Written(cells, x0, q), x0 + Len(q), text) = Written(cells, x0, q \o text)
    BY <2>1, WrittenTwice
  <2> QED
    BY <1>8, <2>2 DEF c1, c2
<1>12. IsSeq(c1) /\ Len(c1) \in Nat
  BY <1>2, <1>6, <1>9, WrittenIs, SeqIs
<1> HIDE DEF c1, c2
<1>13. c2 = Put(c1, w, text)
  BY <1>11 DEF Written
<1>14. w \in Nat
  BY <1>2, <1>6, <1>8
<1>15. /\ Len(c2) = IF Len(c1) <= w + n THEN w + n ELSE Len(c1)
       /\ \A i \in 1..Len(c2) :
            c2[i] = IF i - w \in 1..n THEN text[i - w]
                    ELSE IF i <= Len(c1) THEN c1[i] ELSE Garbage
  BY <1>12, <1>13, <1>14, PutIs DEF n
<1>16. Matches(new, c2)
  <2> SUFFICES ASSUME NEW x \in Places, new[x] # None
               PROVE  x < Len(c2) /\ c2[x + 1] = new[x]
    BY DEF Matches
  <2>1. x \in Nat
    BY FilesAssumption DEF Places
  <2>2. CASE x - w \in 0..n - 1
    <3>1. new[x] = text[x - w + 1]
      BY <1>9, <2>2
    <3>2. x < Len(c2) /\ (x + 1) - w \in 1..n /\ (x + 1) - w = x - w + 1 /\ x + 1 \in 1..Len(c2)
      BY <1>1, <1>12, <1>14, <1>15, <2>1, <2>2
    <3> QED
      BY <1>15, <3>1, <3>2
  <2>3. CASE x - w \notin 0..n - 1
    <3>1. new[x] = old[x]
      BY <1>9, <2>3
    <3>2. x < Len(c1) /\ c1[x + 1] = old[x]
      BY <1>8, <3>1 DEF Matches, c1
    <3>3. /\ x < Len(c2) /\ ~((x + 1) - w \in 1..n) /\ x + 1 <= Len(c1) /\ x + 1 \in 1..Len(c2)
      BY <1>1, <1>12, <1>14, <1>15, <2>1, <2>3, <3>2
    <3> QED
      BY <1>15, <3>1, <3>2, <3>3
  <2> QED
    BY <2>2, <2>3
<1>17. Matches(mg[t.fid], Written(fs[t.fid].cells, t.pos, Out(t) \o text))
  BY <1>3, <1>5, <1>16 DEF c2, cells, x0, new
<1>18. t.where = t.pos + Len(Out(t) \o text)
  <2>1. t.where = w + n /\ t.pos = x0 /\ Len(Out(t) \o text) = Len(q) + n
    BY <1>3, <1>5, <1>10 DEF x0
  <2>2. Len(q) \in Nat
    BY <1>2, <1>6
  <2> QED
    BY <1>1, <1>2, <1>8, <2>1, <2>2
<1>19. t.writes /\ ~t.err
  BY <1>3
<1>20. StreamInv(t, text, FALSE, fs, mg, h)
  BY <1>4, <1>17, <1>18, <1>19 DEF StreamInv
<1> QED
  BY <1>20 DEF t

\* fwrite() puts as much of the rest as fits into the buffer.
LEMMA StreamFits ==
  ASSUME NEW s, NEW rest, NEW fs, NEW lg, NEW h, StreamInv(s, rest, FALSE, fs, lg, h),
         s.writes, ~s.err, NEW chunk, chunk = Min({Len(rest), BufSize - s.index}), NEW t,
         t = [s EXCEPT !.buf = [i \in DOMAIN @ |->
                         IF i - s.index \in 1..chunk THEN rest[i - s.index] ELSE @[i]],
                       !.index = @ + chunk]
  PROVE  StreamInv(t, SubSeq(rest, chunk + 1, Len(rest)), FALSE, fs, lg, h)
<1> DEFINE left == SubSeq(rest, chunk + 1, Len(rest))
           x == s.index
           q == Out(s)
           r == Out(t)
<1>1. StreamOK(s) /\ IsSeq(rest) /\ Len(rest) \in Nat
  BY SeqIs DEF StreamInv
<1>2. x \in Nat /\ x <= BufSize /\ BufSize \in Nat /\ s.buf = [i \in 1..BufSize |-> s.buf[i]]
  BY <1>1, BufSizeAssumption DEF StreamOK
<1>3. chunk \in Nat /\ chunk <= Len(rest) /\ x + chunk <= BufSize
  <2> DEFINE n == Len(rest)
             d == BufSize - x
  <2>1. n \in Nat /\ d \in Nat /\ chunk = Min({n, d})
    BY <1>1, <1>2
  <2> HIDE DEF n, d, x
  <2>2. chunk = IF n <= d THEN n ELSE d
    BY <2>1, MinOfTwo
  <2> QED
    BY <1>2, <2>1, <2>2 DEF n, d
<1>4. /\ t.fid = s.fid /\ t.writes = s.writes /\ t.pos = s.pos /\ t.where = s.where
      /\ t.err = s.err /\ t.index = x + chunk /\ t.in = s.in
      /\ t.buf = [i \in 1..BufSize |-> IF i - x \in 1..chunk THEN rest[i - x] ELSE s.buf[i]]
      /\ t = [f \in {"fid", "writes", "pos", "where", "eof", "err", "mode", "buf", "index", "in"} |-> t[f]]
  <2> DEFINE b == [i \in 1..BufSize |-> IF i - x \in 1..chunk THEN rest[i - x] ELSE s.buf[i]]
  <2>1. DOMAIN s.buf = 1..BufSize
    BY <1>2
  <2>2. t = [s EXCEPT !.buf = b, !.index = x + chunk]
    BY <2>1
  <2> HIDE DEF b
  <2>3. /\ t.fid = s.fid /\ t.writes = s.writes /\ t.pos = s.pos /\ t.where = s.where
        /\ t.err = s.err /\ t.index = x + chunk /\ t.in = s.in /\ t.buf = b
        /\ t = [f \in {"fid", "writes", "pos", "where", "eof", "err", "mode", "buf", "index", "in"} |-> t[f]]
    BY <1>1, <2>2 DEF StreamOK
  <2> QED
    BY <2>3 DEF b
<1>5. t.buf = [i \in 1..BufSize |-> t.buf[i]]
  BY <1>4
<1>6. StreamOK(t)
  <2>1. t.index \in 0..BufSize
    BY <1>2, <1>3, <1>4
  <2>2. s.fid \in FileNo /\ s.pos \in Nat /\ IsSeq(s.in)
    BY <1>1 DEF StreamOK
  <2> HIDE DEF x
  <2> QED
    BY <1>4, <1>5, <2>1, <2>2 DEF StreamOK
<1>7. /\ IsSeq(q) /\ Len(q) = x /\ \A i \in 1..x : q[i] = s.buf[i]
      /\ IsSeq(r) /\ Len(r) = x + chunk /\ \A i \in 1..x + chunk : r[i] = t.buf[i]
  <2>1. IsSeq(q) /\ Len(q) = x /\ \A i \in 1..x : q[i] = s.buf[i]
    BY <1>1, OutIs
  <2>2. IsSeq(r) /\ Len(r) = t.index /\ \A i \in 1..t.index : r[i] = t.buf[i]
    BY <1>6, OutIs
  <2> QED
    BY <1>4, <2>1, <2>2
<1>8. IsSeq(left) /\ Len(left) = Len(rest) - chunk /\ \A i \in 1..Len(left) : left[i] = rest[chunk + i]
  BY <1>1, <1>3, SubIs
<1> HIDE DEF left, q, r, x
<1> DEFINE a == r \o left
           b == q \o rest
<1>9. /\ IsSeq(a) /\ Len(a) = x + Len(rest)
      /\ \A i \in 1..x + Len(rest) : a[i] = IF i <= x + chunk THEN r[i] ELSE left[i - (x + chunk)]
  <2>1. x + chunk + Len(left) = x + Len(rest)
    BY <1>1, <1>2, <1>3, <1>8
  <2> QED
    BY <1>7, <1>8, <2>1, JoinIs
<1>10. /\ IsSeq(b) /\ Len(b) = x + Len(rest)
       /\ \A i \in 1..x + Len(rest) : b[i] = IF i <= x THEN q[i] ELSE rest[i - x]
  BY <1>1, <1>7, JoinIs
<1> HIDE DEF a, b
<1>11. ASSUME NEW i \in 1..x + Len(rest) PROVE a[i] = b[i]
  <2>1. CASE i <= x
    <3>1. i \in 1..x /\ i \in 1..x + chunk /\ i \in 1..BufSize /\ ~(i - x \in 1..chunk)
      BY <1>1, <1>2, <1>3, <2>1
    <3>2. b[i] = s.buf[i]
      BY <1>7, <1>10, <2>1, <3>1
    <3>3. a[i] = r[i]
      <4>1. i <= x + chunk
        BY <1>2, <1>3, <3>1
      <4> QED
        BY <1>9, <4>1
    <3> DEFINE tb == t.buf
    <3>5. \A j \in 1..x + chunk : r[j] = tb[j]
      BY <1>7
    <3> HIDE DEF tb
    <3>6. r[i] = tb[i]
      BY <3>1, <3>5
    <3>4. t.buf[i] = s.buf[i]
      BY <1>4, <3>1 DEF x
    <3> QED
      BY <3>2, <3>3, <3>4, <3>6 DEF tb
  <2>2. CASE i > x /\ i <= x + chunk
    <3>1. i \in 1..x + chunk /\ i \in 1..BufSize /\ i - x \in 1..chunk
      BY <1>1, <1>2, <1>3, <2>2
    <3>2. b[i] = rest[i - x]
      BY <1>2, <1>10, <2>2
    <3>3. a[i] = r[i]
      <4>1. i <= x + chunk
        BY <1>2, <1>3, <3>1
      <4> QED
        BY <1>9, <4>1
    <3> DEFINE tb == t.buf
    <3>5. \A j \in 1..x + chunk : r[j] = tb[j]
      BY <1>7
    <3> HIDE DEF tb
    <3>6. r[i] = tb[i]
      BY <3>1, <3>5
    <3>4. t.buf[i] = rest[i - x]
      BY <1>4, <3>1 DEF x
    <3> QED
      BY <3>2, <3>3, <3>4, <3>6 DEF tb
  <2>3. CASE i > x + chunk
    <3>1. /\ i - (x + chunk) \in 1..Len(left) /\ chunk + (i - (x + chunk)) = i - x
          /\ ~(i <= x) /\ ~(i <= x + chunk)
      BY <1>1, <1>2, <1>3, <1>8, <2>3
    <3>2. b[i] = rest[i - x]
      BY <1>10, <3>1
    <3>3. a[i] = left[i - (x + chunk)]
      BY <1>9, <3>1
    <3> QED
      BY <1>8, <3>1, <3>2, <3>3
  <2> QED
    BY <1>2, <1>3, <2>1, <2>2, <2>3
<1>12. a = b
  BY <1>9, <1>10, <1>11, SeqSame
<1>13. Out(t) \o left = Out(s) \o rest
  BY <1>12 DEF a, b, q, r
<1>14. StreamInv(t, left, FALSE, fs, lg, h)
  BY <1>4, <1>6, <1>8, <1>13 DEF StreamInv
<1> QED
  BY <1>14 DEF left

-----------------------------------------------------------------------------
(* What a program knows after a step of a call, about the stream it is about *)
(* and the others.                                                          *)

\* The other streams of a program than u.
Aside(k, F, u, fs, lg, h) ==
  /\ k.file = [v \in F |-> k.file[v]]
  /\ \A v \in F \ {u} : k.refcnt[v] # None => StreamInv(k.file[v], <<>>, FALSE, fs, lg, h)

\* k becomes l: no stream begins to write to a file, and one that no longer does leaves there what
\* is known of it.
Keeps(k, l, F, fs, lg) ==
  \A v \in F : \A f :
    /\ WritesTo(l, v, f) => WritesTo(k, v, f)
    /\ WritesTo(k, v, f) /\ ~WritesTo(l, v, f) => Matches(lg[f], fs[f].cells)

\* The streams are the same, but for the state of u.
OneFile(k, l, F, u, s) ==
  /\ l.file = [v \in F |-> l.file[v]]
  /\ l.file[u] = s /\ \A v \in F \ {u} : l.file[v] = k.file[v]
  /\ \A v \in F : l.refcnt[v] # None <=> k.refcnt[v] # None
  /\ s.fid = k.file[u].fid /\ s.writes = k.file[u].writes

LEMMA OneFileData ==
  ASSUME NEW k, NEW F, NEW u \in F, NEW fs, NEW lg, NEW h, Aside(k, F, u, fs, lg, h),
         NEW l, NEW s, OneFile(k, l, F, u, s),
         StreamInv(s, Rest(l, u), Telling(l, u), fs, lg, h),
         l.at # "idle" => l.call.u = u /\ CallData(l.call),
         l.at = "fill" => s.index = 0
  PROVE  ProgData(l, F, fs, lg, h) /\ Keeps(k, l, F, fs, lg)
<1>1. ASSUME NEW v \in F, l.refcnt[v] # None
      PROVE  StreamInv(l.file[v], Rest(l, v), Telling(l, v), fs, lg, h)
  <2>1. CASE v = u
    BY <2>1 DEF OneFile
  <2>2. CASE v # u
    <3>1. StreamInv(k.file[v], <<>>, FALSE, fs, lg, h) /\ l.file[v] = k.file[v]
      BY <1>1, <2>2 DEF Aside, OneFile
    <3>2. Rest(l, v) = <<>> /\ Telling(l, v) = FALSE
      BY <2>2 DEF Rest, Telling
    <3> QED
      BY <3>1, <3>2
  <2> QED
    BY <2>1, <2>2
<1>2. ProgData(l, F, fs, lg, h)
  <2>1. l.at = "fill" => l.file[l.call.u].index = 0
    BY DEF OneFile
  <2> QED
    BY <1>1, <2>1 DEF ProgData, OneFile
<1>3. ASSUME NEW v \in F, NEW f PROVE WritesTo(l, v, f) <=> WritesTo(k, v, f)
  <2>1. l.file[v].fid = k.file[v].fid /\ l.file[v].writes = k.file[v].writes
    BY DEF OneFile
  <2> QED
    BY <2>1 DEF WritesTo, OneFile
<1> QED
  BY <1>2, <1>3 DEF Keeps

LEMMA WithFile ==
  ASSUME NEW k, Shape(k), NEW F, k.file = [v \in F |-> k.file[v]], k.call.u \in F, NEW s,
         s.fid = FileOf(k).fid, s.writes = FileOf(k).writes
  PROVE  OneFile(k, With(k, s), F, k.call.u, s)
<1> DEFINE u == k.call.u
           m == [k.file EXCEPT ![u] = s]
           l == With(k, s)
<1>1. l = [k EXCEPT !.file = m]
  BY DEF With
<1>2. m = [v \in F |-> m[v]] /\ m[u] = s /\ \A v \in F \ {u} : m[v] = k.file[v]
  BY Zenon
<1> HIDE DEF m
<1>3. l.file = m /\ l.refcnt = k.refcnt
  BY <1>1 DEF Shape
<1> HIDE DEF l
<1>4. OneFile(k, l, F, u, s)
  BY <1>2, <1>3 DEF OneFile, FileOf
<1> QED
  BY <1>4 DEF l, u

\* A call returns.
LEMMA ReturnsData ==
  ASSUME NEW k, Shape(k), NEW F, NEW u \in F, NEW fs, NEW lg, NEW h, Aside(k, F, u, fs, lg, h),
         NEW l, Shape(l), NEW s, OneFile(k, l, F, u, s), StreamInv(s, <<>>, FALSE, fs, lg, h)
  PROVE  ProgData(Return(l), F, fs, lg, h) /\ Keeps(k, Return(l), F, fs, lg)
<1> DEFINE q == Return(l)
<1>1. q.at = "idle" /\ q.file = l.file /\ q.refcnt = l.refcnt
  BY DEF Return, Shape
<1> HIDE DEF q
<1>2. OneFile(k, q, F, u, s) /\ Rest(q, u) = <<>> /\ Telling(q, u) = FALSE
  BY <1>1 DEF OneFile, Rest, Telling
<1>3. ProgData(q, F, fs, lg, h) /\ Keeps(k, q, F, fs, lg)
  BY <1>1, <1>2, OneFileData
<1> QED
  BY <1>3 DEF q

\* It makes a request of another kind.
LEMMA GotoData ==
  ASSUME NEW k, Shape(k), NEW F, NEW u \in F, NEW fs, NEW lg, NEW h, Aside(k, F, u, fs, lg, h),
         NEW l, Shape(l), l.call.u = u, CallShape(l.call), NEW s, OneFile(k, l, F, u, s),
         NEW at, at # "idle", at = "fill" => s.index = 0, NEW op, NEW w,
         w = [l.call EXCEPT !.op = op], CallData(w),
         StreamInv(s, IF op = "write" THEN w.rest ELSE <<>>, op = "tell", fs, lg, h)
  PROVE  ProgData(Goto(l, at, op), F, fs, lg, h) /\ Keeps(k, Goto(l, at, op), F, fs, lg)
<1> DEFINE q == Goto(l, at, op)
<1>1. w.op = op /\ w.u = u
  BY DEF CallShape
<1>2. q = [l EXCEPT !.at = at, !.call = w]
  BY DEF Goto
<1>3. q.at = at /\ q.call = w /\ q.file = l.file /\ q.refcnt = l.refcnt
  <2> HIDE DEF q
  <2> QED
    BY <1>2 DEF Shape
<1> HIDE DEF q
<1>4. OneFile(k, q, F, u, s)
  BY <1>3 DEF OneFile
<1>5. Rest(q, u) = (IF op = "write" THEN w.rest ELSE <<>>) /\ (Telling(q, u) <=> op = "tell")
  BY <1>1, <1>3 DEF Rest, Telling
<1>6. StreamInv(s, Rest(q, u), Telling(q, u), fs, lg, h)
  <2>1. CASE op = "tell"
    <3>1. Telling(q, u) = TRUE /\ (op = "tell") = TRUE
      BY <1>1, <1>3, <2>1 DEF Telling
    <3> QED
      BY <1>5, <3>1
  <2>2. CASE op # "tell"
    <3>1. Telling(q, u) = FALSE /\ (op = "tell") = FALSE
      BY <1>1, <1>3, <2>2 DEF Telling
    <3> QED
      BY <1>5, <3>1
  <2> QED
    BY <2>1, <2>2
<1>7. ProgData(q, F, fs, lg, h) /\ Keeps(k, q, F, fs, lg)
  BY <1>1, <1>3, <1>4, <1>5, <1>6, OneFileData
<1> QED
  BY <1>7 DEF q

-----------------------------------------------------------------------------
(* fread() and fwrite().                                                    *)

\* How many items and characters fread() takes of len that are buffered, when they make d items.
LEMMA AmountIs ==
  ASSUME NEW n \in Nat, NEW len \in Nat, NEW size \in Nat \ {0}, NEW d \in Nat,
         d * size <= len, size = 1 => d = len
  PROVE  LET items == Min({n, d})
         IN  /\ items \in Nat /\ items <= n /\ items * size \in Nat /\ items * size <= len
             /\ items # n => (size = 1 => items = len) /\ (n = 1 => items = 0)
<1> DEFINE items == Min({n, d})
<1>1. items = IF n <= d THEN n ELSE d
  BY MinOfTwo
<1> HIDE DEF items
<1>2. items \in Nat /\ items <= n /\ items <= d
  BY <1>1
<1>3. items * size \in Nat /\ items * size <= d * size
  <2>1. PICK e \in Nat : d = items + e
    <3>1. d - items \in Nat /\ d = items + (d - items)
      BY <1>2
    <3> QED
      BY <3>1
  <2>2. items * size \in Nat /\ e * size \in Nat
    BY <1>2
  <2>3. (items + e) * size = items * size + e * size
    BY <1>2
  <2> QED
    BY <2>1, <2>2, <2>3
<1>4. d * size \in Nat
  OBVIOUS
<1> QED
  BY <1>1, <1>2, <1>3, <1>4 DEF items

LEMMA DivIs ==
  ASSUME NEW len \in Nat, NEW size \in Nat \ {0}
  PROVE  /\ len \div size \in Nat /\ (len \div size) * size <= len
         /\ size = 1 => len \div size = len
  OBVIOUS

LEMMA GarbageIs ==
  ASSUME NEW m \in Nat
  PROVE  LET g == [i \in 1..m |-> Garbage] IN IsSeq(g) /\ (m = 0 => g = <<>>)
<1> DEFINE g == [i \in 1..m |-> Garbage]
<1>1. g = [i \in 1..m |-> g[i]]
  OBVIOUS
<1> HIDE DEF g
<1>2. IsSeq(g) /\ Len(g) = m
  BY <1>1, IsSeqOf
<1>3. m = 0 => g = <<>>
  BY <1>2, EmptyOnly
<1> QED
  BY <1>2, <1>3 DEF g

LEMMA DeliverData ==
  ASSUME NEW k, Shape(k), CallShape(k.call), k.call.op \in {"read", "gets"}, CallData(k.call),
         NEW F, k.call.u \in F, NEW fs, NEW lg, NEW h, Aside(k, F, k.call.u, fs, lg, h),
         StreamInv(FileOf(k), <<>>, FALSE, fs, lg, h), FileOf(k).index = 0
  PROVE  ProgData(Deliver(k), F, fs, lg, h) /\ Keeps(k, Deliver(k), F, fs, lg)
<1> DEFINE u     == k.call.u
           s     == FileOf(k)
           n     == k.call.n
           size  == k.call.size
           in    == s.in
           items == Min({n, Len(in) \div size})
           lines == {i \in 1..items : k.call.op = "gets" /\ in[i] = NL}
           m     == IF lines # {} THEN Min(lines) ELSE items * size
           rest  == SubSeq(in, m + 1, Len(in))
           fill  == IF rest = <<>> THEN 0 ELSE m
           moved == rest \o [i \in 1..fill |-> Garbage]
           s1    == [s EXCEPT !.in = rest, !.pos = @ + m, !.where = @ + m]
           s2    == [s EXCEPT !.in = moved, !.pos = @ + m, !.where = @ + m]
           w     == [k.call EXCEPT !.n = @ - items]
           k1    == [k EXCEPT !.call = w]
           done  == items = n \/ lines # {} \/ k.call.short \/ s.eof
<1>1. Deliver(k) = IF done THEN Return(With(k1, s1)) ELSE Goto(With(k1, s2), "fill", k.call.op)
  <2>1. [s1 EXCEPT !.in = moved] = s2
    BY DEF StreamInv, StreamOK
  <2> QED
    BY <2>1, Zenon DEF Deliver
<1>2. /\ n \in Nat /\ size \in Nat \ {0} /\ (k.call.op = "gets" => size = 1)
      /\ (Simple => size = 1 \/ n = 1)
  BY BufSizeAssumption DEF CallData
<1>3. StreamOK(s) /\ IsSeq(in) /\ Len(in) \in Nat
  BY SeqIs DEF StreamInv, StreamOK
<1>4. /\ items \in Nat /\ items <= n /\ items * size \in Nat /\ items * size <= Len(in)
      /\ items # n => (size = 1 => items = Len(in)) /\ (n = 1 => items = 0)
  <2> DEFINE len == Len(in)
             d   == len \div size
  <2>1. items = Min({n, d})
    OBVIOUS
  <2>2. /\ n \in Nat /\ size \in Nat \ {0} /\ len \in Nat
        /\ d \in Nat /\ d * size <= len /\ (size = 1 => d = len)
    BY <1>2, <1>3, DivIs
  <2> HIDE DEF len, n, size, items, d
  <2>3. /\ items \in Nat /\ items <= n /\ items * size \in Nat /\ items * size <= len
        /\ items # n => (size = 1 => items = len) /\ (n = 1 => items = 0)
    <3>1. Min({n, d}) \in Nat /\ Min({n, d}) <= n
      BY <2>2, AmountIs
    <3>2. Min({n, d}) * size \in Nat
      BY <2>2, AmountIs
    <3>3. Min({n, d}) * size <= len
      BY <2>2, AmountIs
    <3>4. Min({n, d}) # n => (size = 1 => Min({n, d}) = len)
      BY <2>2, AmountIs
    <3>5. Min({n, d}) # n => (n = 1 => Min({n, d}) = 0)
      BY <2>2, AmountIs
    <3> QED
      BY <2>1, <3>1, <3>2, <3>3, <3>4, <3>5
  <2> QED
    BY <2>3 DEF len
<1>5. CallShape(w) /\ w.op = k.call.op /\ w.u = u /\ (items # n => CallData(w))
  <2>1. CallShape(w) /\ w.op = k.call.op /\ w.u = u
    BY DEF CallShape
  <2>2. /\ {"size", "n", "short"} \subseteq DOMAIN w /\ w.size = size /\ w.n = n - items
    BY DEF CallData
  <2>3. n - items \in Nat /\ (items # n => (n = 1 => n - items = 1))
    BY <1>2, <1>4
  <2>4. size \in 1..BufSize
    BY DEF CallData
  <2> DEFINE i == items
             nn == n
             z == size
  <2>5. /\ w.size = z /\ w.n = nn - i /\ nn - i \in Nat /\ (i # nn => (nn = 1 => nn - i = 1))
        /\ z \in 1..BufSize /\ (k.call.op = "gets" => z = 1) /\ (Simple => z = 1 \/ nn = 1)
    BY <1>2, <2>2, <2>3, <2>4
  <2>6. i = items /\ nn = n
    OBVIOUS
  <2> HIDE DEF w, i, nn, z
  <2>7. i # nn => CallData(w)
    BY <2>1, <2>2, <2>5 DEF CallData
  <2> QED
    BY <2>1, <2>6, <2>7
<1>6. lines # {} => Min(lines) \in 1..items /\ size = 1
  <2>1. lines \in SUBSET Nat
    BY <1>4
  <2>2. lines # {} => Min(lines) \in lines
    <3> HIDE DEF lines
    <3> QED
      BY <2>1, MinIs
  <2>3. \A i \in lines : i \in 1..items /\ k.call.op = "gets"
    OBVIOUS
  <2> HIDE DEF lines, items
  <2> QED
    BY <1>2, <2>2, <2>3
<1>7. m \in Nat /\ m <= Len(in)
  <2>1. CASE lines # {}
    <3>1. m = Min(lines) /\ m \in 1..items /\ items * size <= Len(in) /\ size = 1
      BY <1>4, <1>6, <2>1
    <3> HIDE DEF m, items, lines, size
    <3> QED
      BY <1>3, <1>4, <3>1
  <2>2. CASE lines = {}
    <3>1. m = items * size
      BY <2>2
    <3> HIDE DEF m
    <3> QED
      BY <1>4, <3>1
  <2> QED
    BY <2>1, <2>2
<1>8. IsSeq(rest) /\ Len(rest) = Len(in) - m
  <2> HIDE DEF m, in
  <2> QED
    BY <1>3, <1>7, SubIs
<1>9. fill \in Nat
  BY <1>7
<1>10. IsSeq(moved)
  <2> HIDE DEF fill, rest
  <2> QED
    BY <1>8, <1>9, GarbageIs, JoinIs
<1>11. Simple /\ ~done => moved = rest
  <2> SUFFICES ASSUME Simple, ~done PROVE moved = rest
    OBVIOUS
  <2>1. m = items * size /\ items # n
    OBVIOUS
  <2>2. fill = 0
    <3>1. CASE size = 1
      <4>1. m = Len(in)
        <5> HIDE DEF m, items, size
        <5> QED
          BY <1>3, <1>4, <2>1, <3>1
      <4>2. Len(rest) = 0
        <5> HIDE DEF m, rest
        <5> QED
          BY <1>3, <1>8, <4>1
      <4>3. rest = <<>>
        <5> HIDE DEF rest
        <5> QED
          BY <1>8, <4>2, EmptyOnly
      <4> QED
        BY <4>3
    <3>2. CASE n = 1
      <4>1. m = 0
        <5> HIDE DEF m, items, size, n
        <5> QED
          BY <1>2, <1>4, <2>1, <3>2
      <4> HIDE DEF m, rest
      <4> QED
        BY <4>1
    <3> HIDE DEF size, n, fill
    <3> QED
      BY <1>2, <3>1, <3>2
  <2> HIDE DEF fill, rest
  <2>3. [i \in 1..fill |-> Garbage] = <<>>
    BY <1>9, <2>2, GarbageIs
  <2> QED
    BY <1>8, <2>3, JoinEmpty
<1>12. Shape(k1) /\ k1.call = w /\ k1.file = k.file /\ k1.refcnt = k.refcnt
  <2> HIDE DEF w
  <2> QED
    BY DEF Shape
<1>20. ~done => items # n
  OBVIOUS
<1> HIDE DEF rest, moved, fill, m, done
<1>13. /\ s1.fid = s.fid /\ s1.writes = s.writes /\ s2.fid = s.fid /\ s2.writes = s.writes /\ s2.index = 0
  BY <1>3 DEF StreamOK
<1>14. StreamInv(s1, <<>>, FALSE, fs, lg, h)
  BY <1>7, <1>8, StreamTaken DEF rest
<1>15. ~done => StreamInv(s2, <<>>, FALSE, fs, lg, h)
  BY <1>7, <1>10, <1>11, StreamTaken DEF rest
<1> HIDE DEF s1, s2, w, k1, items, lines
<1>16. Aside(k1, F, u, fs, lg, h)
  BY <1>12 DEF Aside
<1>17. k1.call.u = u /\ FileOf(k1) = s /\ k1.file = [v \in F |-> k1.file[v]]
  BY <1>5, <1>12 DEF FileOf, Aside
<1> HIDE DEF s
<1>18. CASE done
  <2> DEFINE l == With(k1, s1)
  <2>1. OneFile(k1, l, F, u, s1) /\ Shape(l)
    BY <1>12, <1>13, <1>17, WithFile, WithIs
  <2> HIDE DEF l
  <2> DEFINE q == Return(l)
  <2>2. ProgData(q, F, fs, lg, h) /\ Keeps(k1, q, F, fs, lg)
    BY <1>12, <1>14, <1>16, <2>1, ReturnsData
  <2>3. Deliver(k) = q
    BY <1>1, <1>18 DEF l
  <2> HIDE DEF q
  <2> QED
    BY <1>12, <2>2, <2>3 DEF Keeps, WritesTo
<1>19. CASE ~done
  <2> DEFINE l == With(k1, s2)
             op == k.call.op
  <2>1. OneFile(k1, l, F, u, s2) /\ Shape(l) /\ l.call = w
    BY <1>12, <1>13, <1>17, WithFile, WithIs
  <2> HIDE DEF l
  <2>2. w = [l.call EXCEPT !.op = op]
    BY <1>5, <2>1 DEF CallShape, CallData, w
  <2> DEFINE q == Goto(l, "fill", op)
  <2>3. op # "write" /\ op # "tell" /\ CallData(w) /\ CallShape(w) /\ w.u = u
    BY <1>5, <1>19, <1>20
  <2>4. (op = "tell") = FALSE /\ (IF op = "write" THEN w.rest ELSE <<>>) = <<>>
    BY <2>3
  <2>5. StreamInv(s2, IF op = "write" THEN w.rest ELSE <<>>, op = "tell", fs, lg, h)
    BY <1>15, <1>19, <2>4
  <2> HIDE DEF op
  <2>6. ProgData(q, F, fs, lg, h) /\ Keeps(k1, q, F, fs, lg)
    BY <1>12, <1>13, <1>16, <2>1, <2>2, <2>3, <2>5, GotoData
  <2>7. Deliver(k) = q
    BY <1>1, <1>19 DEF l, op
  <2> HIDE DEF q
  <2> QED
    BY <1>12, <2>6, <2>7 DEF Keeps, WritesTo
<1> QED
  BY <1>18, <1>19

LEMMA FitData ==
  ASSUME NEW k, Shape(k), CallShape(k.call), k.call.op = "write", CallData(k.call),
         NEW F, k.call.u \in F, NEW fs, NEW lg, NEW h, Aside(k, F, k.call.u, fs, lg, h),
         StreamInv(FileOf(k), k.call.rest, FALSE, fs, lg, h), FileOf(k).writes, ~FileOf(k).err
  PROVE  ProgData(Fit(k), F, fs, lg, h) /\ Keeps(k, Fit(k), F, fs, lg)
<1> DEFINE u     == k.call.u
           s     == FileOf(k)
           rest  == k.call.rest
           chunk == Min({Len(rest), BufSize - s.index})
           s1    == [s EXCEPT !.buf = [i \in DOMAIN @ |->
                       IF i - s.index \in 1..chunk THEN rest[i - s.index] ELSE @[i]],
                     !.index = @ + chunk]
           left  == SubSeq(rest, chunk + 1, Len(rest))
           l     == With(k, s1)
           w     == [l.call EXCEPT !.rest = SubSeq(@, chunk + 1, Len(@))]
           w1    == [k.call EXCEPT !.rest = left]
           k1    == [l EXCEPT !.call = w]
           q     == Goto(k1, "flush", "write")
<1>1. Fit(k) = IF k1.call.rest = <<>> /\ Kept(s1) THEN Return(k1) ELSE q
  BY Zenon DEF Fit
<1>2. StreamInv(s1, left, FALSE, fs, lg, h)
  <2> DEFINE c == chunk
             x == s
             y == rest
  <2>1. /\ c = Min({Len(y), BufSize - x.index})
        /\ s1 = [x EXCEPT !.buf = [i \in DOMAIN @ |->
                   IF i - x.index \in 1..c THEN y[i - x.index] ELSE @[i]], !.index = @ + c]
        /\ left = SubSeq(y, c + 1, Len(y))
    OBVIOUS
  <2>2. StreamInv(x, y, FALSE, fs, lg, h) /\ x.writes /\ ~x.err
    OBVIOUS
  <2> HIDE DEF c, x, y, s1, left
  <2> QED
    BY <2>1, <2>2, StreamFits
<1>3. s1.fid = s.fid /\ s1.writes = s.writes
  BY DEF StreamInv, StreamOK
<1>4. k.file = [v \in F |-> k.file[v]]
  BY DEF Aside
<1> HIDE DEF s1
<1>5. Shape(l) /\ l.call = k.call /\ l.refcnt = k.refcnt /\ OneFile(k, l, F, u, s1)
  BY <1>3, <1>4, WithIs, WithFile
<1>6. w = w1
  BY <1>5
<1>7. CallShape(w) /\ w.u = u /\ w.op = "write" /\ w.rest = left /\ CallData(w)
  <2>1. CallShape(w1) /\ w1.u = u /\ w1.op = "write" /\ w1.rest = left /\ "rest" \in DOMAIN w1
    BY DEF CallShape, CallData
  <2>2. IsSeq(left)
    BY <1>2 DEF StreamInv
  <2> HIDE DEF w, w1, left
  <2> QED
    BY <1>6, <2>1, <2>2 DEF CallData
<1> HIDE DEF w, l
<1>8. Shape(k1) /\ k1.call = w /\ k1.file = l.file /\ k1.refcnt = l.refcnt
  BY <1>5 DEF Shape
<1> HIDE DEF k1, left
<1>9. OneFile(k, k1, F, u, s1)
  BY <1>5, <1>8 DEF OneFile
<1>10. CASE left = <<>> /\ Fit(k) = Return(k1)
  BY <1>2, <1>8, <1>9, <1>10, ReturnsData
<1>11. CASE Fit(k) = q
  <2>1. w = [k1.call EXCEPT !.op = "write"]
    BY <1>7, <1>8 DEF CallShape, w
  <2>2. ("write" = "tell") = FALSE /\ (IF "write" = "write" THEN w.rest ELSE <<>>) = left
    BY <1>7
  <2>3. StreamInv(s1, IF "write" = "write" THEN w.rest ELSE <<>>, "write" = "tell", fs, lg, h)
    BY <1>2, <2>2
  <2> DEFINE op == "write"
             at == "flush"
  <2>4. op = "write" /\ at # "idle" /\ at # "fill" /\ w = [k1.call EXCEPT !.op = op]
        /\ StreamInv(s1, IF op = "write" THEN w.rest ELSE <<>>, op = "tell", fs, lg, h)
    BY <2>1, <2>3
  <2>5. q = Goto(k1, at, op)
    OBVIOUS
  <2> HIDE DEF op, at, q
  <2>6. ProgData(Goto(k1, at, op), F, fs, lg, h) /\ Keeps(k, Goto(k1, at, op), F, fs, lg)
    BY <1>7, <1>8, <1>9, <2>4, GotoData
  <2> QED
    BY <1>11, <2>5, <2>6
<1> QED
  BY <1>1, <1>7, <1>8, <1>10, <1>11

-----------------------------------------------------------------------------
(* What follows fflush().                                                   *)

\* What a program in a call knows.
Busy(k, F, fs, lg, h) ==
  /\ Aside(k, F, k.call.u, fs, lg, h) /\ CallData(k.call)
  /\ StreamInv(FileOf(k), Rest(k, k.call.u), Telling(k, k.call.u), fs, lg, h)

LEMMA PlainData ==
  ASSUME NEW k, Shape(k), CallShape(k.call), k.call.op \in Plain, k.at = "flush",
         NEW F, k.call.u \in F, NEW fs, NEW lg, NEW h, Busy(k, F, fs, lg, h),
         FileOf(k).index = 0 \/ FileOf(k).err
  PROVE  ProgData(Then(k), F, fs, lg, h) /\ Keeps(k, Then(k), F, fs, lg)
<1> DEFINE u == k.call.u
           s == FileOf(k)
           w == k.call
<1>1. Aside(k, F, u, fs, lg, h) /\ CallData(w) /\ k.file = [v \in F |-> k.file[v]]
  BY DEF Busy, Aside
<1>2. StreamOK(s)
  BY DEF Busy, StreamInv
<1>3. OneFile(k, k, F, u, s)
  BY <1>1 DEF OneFile, FileOf
<1>4. ASSUME StreamInv(s, <<>>, FALSE, fs, lg, h)
      PROVE  ProgData(Return(k), F, fs, lg, h) /\ Keeps(k, Return(k), F, fs, lg)
  BY <1>1, <1>3, <1>4, ReturnsData
<1>5. CASE w.op = "write"
  <2>1. Rest(k, u) = w.rest /\ Telling(k, u) = FALSE
    BY <1>5 DEF Rest, Telling
  <2>2. StreamInv(s, w.rest, FALSE, fs, lg, h)
    BY <2>1 DEF Busy
  <2>3. CASE s.err \/ w.rest = <<>>
    <3>1. Then(k) = Return(k)
      BY <1>5, <2>3 DEF Then
    <3>2. StreamInv(s, <<>>, FALSE, fs, lg, h)
      BY <2>2, <2>3, EmptyIs DEF StreamInv
    <3> QED
      BY <1>4, <3>1, <3>2
  <2>4. CASE ~(s.err \/ w.rest = <<>>)
    <3>1. Then(k) = Fit(k)
      BY <1>5, <2>4 DEF Then
    <3>2. s.writes
      BY <2>2, <2>4 DEF StreamInv
    <3> QED
      BY <1>1, <1>5, <2>2, <2>4, <3>1, <3>2, FitData
  <2> QED
    BY <2>3, <2>4
<1>6. ASSUME w.op # "write", w.op # "tell" PROVE StreamInv(s, <<>>, FALSE, fs, lg, h)
  <2>1. Rest(k, u) = <<>> /\ Telling(k, u) = FALSE
    BY <1>6 DEF Rest, Telling
  <2> QED
    BY <2>1 DEF Busy
<1>7. CASE w.op \in {"read", "gets"}
  <2>1. CASE s.err
    <3>1. Then(k) = Return(k)
      BY <1>7, <2>1 DEF Then
    <3> QED
      BY <1>4, <1>6, <1>7, <3>1
  <2>2. CASE ~s.err
    <3>1. Then(k) = Deliver(k)
      BY <1>7, <2>2 DEF Then
    <3> QED
      BY <1>1, <1>6, <1>7, <2>2, <3>1, DeliverData
  <2> QED
    BY <2>1, <2>2
<1>8. CASE w.op = "seek"
  <2> DEFINE x == IF w.whence = "cur" THEN s.pos + w.x ELSE w.x
             t == Moved(s, x)
             l == With(k, t)
  <2>1. Then(k) = Goto(l, "flush", "tell")
    BY <1>8 DEF Then
  <2>2. x \in Nat
    BY <1>1, <1>2, <1>8 DEF CallData, StreamOK
  <2> HIDE DEF x
  <2>3. StreamInv(t, <<>>, TRUE, fs, lg, h) /\ t.fid = s.fid /\ t.writes = s.writes
    <3>1. t.fid = s.fid /\ t.writes = s.writes
      BY <1>2 DEF StreamOK, Moved
    <3> QED
      BY <1>6, <1>8, <2>2, <3>1, StreamMoved
  <2> HIDE DEF t
  <2>4. Shape(l) /\ l.call = w /\ OneFile(k, l, F, u, t)
    BY <1>1, <2>3, WithIs, WithFile
  <2> HIDE DEF l
  <2> DEFINE v == [l.call EXCEPT !.op = "tell"]
             at == "flush"
             op == "tell"
  <2>5. CallData(v)
    <3>1. v.op = "tell"
      BY <2>4 DEF CallShape
    <3> HIDE DEF v
    <3> QED
      BY <3>1 DEF CallData
  <2>6. v = [l.call EXCEPT !.op = op] /\ at # "idle" /\ at # "fill"
    OBVIOUS
  <2>7. StreamInv(t, IF op = "write" THEN v.rest ELSE <<>>, op = "tell", fs, lg, h)
    <3>1. (op = "tell") = TRUE /\ (IF op = "write" THEN v.rest ELSE <<>>) = <<>>
      OBVIOUS
    <3> HIDE DEF op, v
    <3> QED
      BY <2>3, <3>1
  <2>8. Then(k) = Goto(l, at, op) /\ l.call.u = u /\ CallShape(l.call)
    BY <2>1, <2>4
  <2> HIDE DEF v, at, op
  <2>9. ProgData(Goto(l, at, op), F, fs, lg, h) /\ Keeps(k, Goto(l, at, op), F, fs, lg)
    BY <1>1, <2>4, <2>5, <2>6, <2>7, <2>8, GotoData
  <2> QED
    BY <2>8, <2>9
<1>9. CASE w.op = "tell"
  <2> DEFINE t == [s EXCEPT !.where = s.pos]
             l == With(k, t)
  <2>1. Then(k) = Return(l)
    BY <1>9 DEF Then
  <2>2. Rest(k, u) = <<>> /\ Telling(k, u) = TRUE
    BY <1>9 DEF Rest, Telling
  <2>3. StreamInv(s, <<>>, TRUE, fs, lg, h)
    BY <2>2 DEF Busy
  <2>4. StreamInv(t, <<>>, FALSE, fs, lg, h) /\ t.fid = s.fid /\ t.writes = s.writes
    <3>1. t.fid = s.fid /\ t.writes = s.writes
      BY <1>2 DEF StreamOK
    <3> HIDE DEF s
    <3> QED
      BY <2>3, <3>1, StreamTold DEF s
  <2> HIDE DEF t
  <2>5. Shape(l) /\ OneFile(k, l, F, u, t)
    BY <1>1, <2>4, WithIs, WithFile
  <2> HIDE DEF l, s, u, w
  <2>6. ProgData(Return(l), F, fs, lg, h) /\ Keeps(k, Return(l), F, fs, lg)
    BY <1>1, <2>4, <2>5, ReturnsData DEF u
  <2> QED
    BY <2>1, <2>6
<1>10. CASE w.op = "sync"
  <2>1. Then(k) = Return(k)
    BY <1>10 DEF Then
  <2> QED
    BY <1>4, <1>6, <1>10, <2>1
<1> QED
  BY <1>5, <1>7, <1>8, <1>9, <1>10 DEF Plain

\* The streams of a program between calls.
Quiet(k, F, fs, lg, h) ==
  /\ k.file = [v \in F |-> k.file[v]]
  /\ \A v \in F : k.refcnt[v] # None => StreamInv(k.file[v], <<>>, FALSE, fs, lg, h)

LEMMA QuietData ==
  ASSUME NEW l, l.at = "idle", NEW F, NEW fs, NEW lg, NEW h, Quiet(l, F, fs, lg, h)
  PROVE  ProgData(l, F, fs, lg, h)
<1>1. \A u \in F : Rest(l, u) = <<>> /\ Telling(l, u) = FALSE
  BY DEF Rest, Telling
<1> QED
  BY <1>1 DEF Quiet, ProgData

LEMMA ClosedData ==
  ASSUME NEW k, Shape(k), NEW F, k.refcnt \in [F -> Nat \cup {None}],
         k.call.from # None => k.call.from \in F /\ k.refcnt[k.call.from] # None,
         NEW fs, NEW lg, NEW h, Quiet(k, F, fs, lg, h)
  PROVE  /\ ProgData(Closed(k), F, fs, lg, h)
         /\ \A v \in F : \A f : WritesTo(Closed(k), v, f) <=> WritesTo(k, v, f)
<1> DEFINE from == k.call.from
           q == Closed(k)
<1>1. CASE from # None
  <2> DEFINE r == [k.refcnt EXCEPT ![from] = @ + 1]
             d == [k.fds EXCEPT ![k.call.fd] = from]
  <2>1. k.refcnt[from] \in Nat /\ from \in F
    BY <1>1
  <2>2. k.refcnt[from] + 1 # None
    BY <2>1, DescriptorsAssumption
  <2>3. \A v \in F : r[v] # None <=> k.refcnt[v] # None
    <3>1. \A v \in F : r[v] = IF v = from THEN k.refcnt[from] + 1 ELSE k.refcnt[v]
      BY <2>1
    <3>2. k.refcnt[from] # None
      BY <1>1
    <3> HIDE DEF r, from
    <3> QED
      BY <2>2, <3>1, <3>2
  <2>4. q = [k EXCEPT !.fds = d, !.refcnt = r, !.at = "idle", !.call = None]
    BY <1>1 DEF Closed, Assign, Return, Shape
  <2> HIDE DEF r, d, q
  <2>5. q.at = "idle" /\ q.file = k.file /\ q.refcnt = r
    BY <2>4 DEF Shape
  <2>6. Quiet(q, F, fs, lg, h)
    BY <2>3, <2>5 DEF Quiet
  <2>7. \A v \in F : \A f : WritesTo(q, v, f) <=> WritesTo(k, v, f)
    BY <2>3, <2>5 DEF WritesTo
  <2>8. ProgData(q, F, fs, lg, h)
    BY <2>5, <2>6, QuietData
  <2> QED
    BY <2>7, <2>8 DEF q
<1>2. CASE from = None
  <2>1. q = Return(k)
    BY <1>2 DEF Closed
  <2> HIDE DEF q
  <2>2. q.at = "idle" /\ q.file = k.file /\ q.refcnt = k.refcnt
    BY <2>1 DEF Shape, Return
  <2>3. Quiet(q, F, fs, lg, h)
    BY <2>2 DEF Quiet
  <2>4. \A v \in F : \A f : WritesTo(q, v, f) <=> WritesTo(k, v, f)
    BY <2>2 DEF WritesTo
  <2>5. ProgData(q, F, fs, lg, h)
    BY <2>2, <2>3, QuietData
  <2> QED
    BY <2>4, <2>5 DEF q
<1> QED
  BY <1>1, <1>2

\* Nothing is pending in the stream of the call.
LEMMA BusyQuiet ==
  ASSUME NEW k, NEW F, k.call.u \in F, NEW fs, NEW lg, NEW h, Busy(k, F, fs, lg, h),
         k.call.op \in {"close", "fclose"}
  PROVE  Quiet(k, F, fs, lg, h) /\ StreamInv(FileOf(k), <<>>, FALSE, fs, lg, h)
<1>1. Rest(k, k.call.u) = <<>> /\ Telling(k, k.call.u) = FALSE
  BY DEF Rest, Telling
<1>2. StreamInv(FileOf(k), <<>>, FALSE, fs, lg, h)
  BY <1>1 DEF Busy
<1> QED
  BY <1>2 DEF Busy, Quiet, Aside, FileOf

LEMMA CloseData ==
  ASSUME NEW k, NEW F, Refs(F), Prog(k, F), Counted(k, F), About(k, F), Closing(k, F),
         k.call.op = "close", NEW fs, NEW lg, NEW h, Busy(k, F, fs, lg, h)
  PROVE  ProgData(Then(k), F, fs, lg, h) /\ Keeps(k, Then(k), F, fs, lg)
<1> DEFINE u == k.call.u
           s == FileOf(k)
           r == [k.refcnt EXCEPT ![u] = @ - 1]
           d == [k.fds EXCEPT ![k.call.fd] = None]
           l == [k EXCEPT !.refcnt = r, !.fds = d]
           from == k.call.from
<1>1. Then(k) = IF k.refcnt[u] = 1 THEN Goto(l, "flush", "fclose") ELSE Closed(l)
  BY DEF Then
<1>2. Shape(k) /\ CallShape(k.call) /\ u \in F /\ k.refcnt \in [F -> Nat \cup {None}] /\ k.refcnt[u] # None
  BY DEF Prog, About
<1>3. k.refcnt[u] \in Nat /\ k.refcnt[u] # 0
  <2>1. k.call.fd \in Held(k, u) /\ k.refcnt[u] = Cardinality(Held(k, u))
    BY <1>2 DEF Closing, Held, Counted
  <2>2. Cardinality(Held(k, u)) # 0
    BY <2>1, HeldFinite, FS_EmptySet
  <2> QED
    BY <1>2, <2>1, <2>2, HeldFinite
<1>4. k.refcnt[u] - 1 \in Nat /\ k.refcnt[u] - 1 # None
  BY <1>3, DescriptorsAssumption
<1>5. r \in [F -> Nat \cup {None}] /\ \A v \in F : r[v] # None <=> k.refcnt[v] # None
  BY <1>2, <1>4
<1>6. Quiet(k, F, fs, lg, h) /\ StreamInv(s, <<>>, FALSE, fs, lg, h)
  BY <1>2, BusyQuiet
<1> HIDE DEF r, d
<1>7. Shape(l) /\ l.call = k.call /\ l.file = k.file /\ l.refcnt = r
  BY <1>2 DEF Shape
<1> HIDE DEF l
<1>8. CASE k.refcnt[u] = 1
  <2>1. OneFile(k, l, F, u, s)
    BY <1>2, <1>5, <1>6, <1>7 DEF OneFile, FileOf, Quiet
  <2> DEFINE w == [l.call EXCEPT !.op = "fclose"]
             at == "flush"
             op == "fclose"
  <2>2. CallData(w)
    <3>1. w.op = "fclose"
      BY <1>2, <1>7 DEF CallShape
    <3> HIDE DEF w
    <3> QED
      BY <3>1 DEF CallData
  <2>3. w = [l.call EXCEPT !.op = op] /\ at # "idle" /\ at # "fill"
    OBVIOUS
  <2>4. StreamInv(s, IF op = "write" THEN w.rest ELSE <<>>, op = "tell", fs, lg, h)
    <3>1. (op = "tell") = FALSE /\ (IF op = "write" THEN w.rest ELSE <<>>) = <<>>
      OBVIOUS
    <3> HIDE DEF op, w, s
    <3> QED
      BY <1>6, <3>1
  <2>5. Then(k) = Goto(l, at, op) /\ l.call.u = u /\ CallShape(l.call) /\ Aside(k, F, u, fs, lg, h)
    BY <1>1, <1>2, <1>7, <1>8 DEF Busy
  <2> HIDE DEF w, at, op, u, s
  <2>6. ProgData(Goto(l, at, op), F, fs, lg, h) /\ Keeps(k, Goto(l, at, op), F, fs, lg)
    BY <1>2, <1>7, <2>1, <2>2, <2>3, <2>4, <2>5, GotoData
  <2> QED
    BY <2>5, <2>6
<1>9. CASE k.refcnt[u] # 1
  <2>1. Then(k) = Closed(l)
    BY <1>1, <1>9
  <2>2. from # None => from \in F /\ k.refcnt[from] # None
    <3> SUFFICES ASSUME from # None PROVE from \in F /\ k.refcnt[from] # None
      OBVIOUS
    <3>1. PICK g \in Fds : k.fds[g] = from
      BY DEF Closing
    <3>2. from \in F
      BY <3>1 DEF Prog
    <3>3. g \in Held(k, from)
      BY <3>1 DEF Held
    <3> QED
      BY <3>2, <3>3 DEF Counted
  <2>3. l.call.from # None => l.call.from \in F /\ l.refcnt[l.call.from] # None
    BY <1>5, <1>7, <2>2
  <2>4. Quiet(l, F, fs, lg, h)
    BY <1>5, <1>6, <1>7 DEF Quiet
  <2>5. l.refcnt \in [F -> Nat \cup {None}]
    BY <1>5, <1>7
  <2>6. /\ ProgData(Closed(l), F, fs, lg, h)
        /\ \A v \in F : \A f : WritesTo(Closed(l), v, f) <=> WritesTo(l, v, f)
    BY <1>7, <2>3, <2>4, <2>5, ClosedData
  <2>7. \A v \in F : \A f : WritesTo(l, v, f) <=> WritesTo(k, v, f)
    BY <1>5, <1>7 DEF WritesTo
  <2> QED
    BY <2>1, <2>6, <2>7 DEF Keeps
<1> QED
  BY <1>8, <1>9

LEMMA FcloseData ==
  ASSUME NEW k, NEW F, Refs(F), Prog(k, F), Counted(k, F), About(k, F), LastClosed(k, F),
         k.call.op = "fclose", NEW fs, NEW lg, NEW h, Busy(k, F, fs, lg, h),
         FileOf(k).index = 0 \/ FileOf(k).err
  PROVE  ProgData(Then(k), F, fs, lg, h) /\ Keeps(k, Then(k), F, fs, lg)
<1> DEFINE u == k.call.u
           s == FileOf(k)
           r == [k.refcnt EXCEPT ![u] = None]
           m == [k.file EXCEPT ![u] = None]
           l == [k EXCEPT !.refcnt = r, !.file = m]
           from == k.call.from
<1>1. Then(k) = Closed(l)
  BY DEF Then, Dropped
<1>2. Shape(k) /\ u \in F /\ k.refcnt \in [F -> Nat \cup {None}]
  BY DEF Prog, About
<1>3. Quiet(k, F, fs, lg, h) /\ StreamInv(s, <<>>, FALSE, fs, lg, h)
  BY <1>2, BusyQuiet
<1>4. r \in [F -> Nat \cup {None}] /\ r[u] = None /\ \A v \in F \ {u} : r[v] = k.refcnt[v]
  BY <1>2
<1>5. m = [v \in F |-> m[v]] /\ \A v \in F \ {u} : m[v] = k.file[v]
  BY <1>2, <1>3, Zenon DEF Quiet
<1> HIDE DEF r, m
<1>6. Shape(l) /\ l.call = k.call /\ l.file = m /\ l.refcnt = r
  BY <1>2 DEF Shape
<1> HIDE DEF l
<1>7. Quiet(l, F, fs, lg, h)
  <2>1. \A v \in F : r[v] # None => v # u /\ k.refcnt[v] # None /\ m[v] = k.file[v]
    BY <1>4, <1>5
  <2> QED
    BY <1>3, <1>5, <1>6, <2>1 DEF Quiet
<1>8. l.call.from # None => l.call.from \in F /\ l.refcnt[l.call.from] # None
  <2> SUFFICES ASSUME from # None PROVE from \in F /\ r[from] # None
    BY <1>6
  <2>1. from \in F /\ Held(k, from) # {} /\ Held(k, u) = {}
    BY DEF LastClosed, Assignable
  <2> QED
    BY <1>4, <2>1 DEF Counted
<1>9. l.refcnt \in [F -> Nat \cup {None}]
  BY <1>4, <1>6
<1>10. /\ ProgData(Closed(l), F, fs, lg, h)
       /\ \A v \in F : \A f : WritesTo(Closed(l), v, f) <=> WritesTo(l, v, f)
  BY <1>6, <1>7, <1>8, <1>9, ClosedData
<1>11. \A v \in F \ {u} : \A f : WritesTo(l, v, f) <=> WritesTo(k, v, f)
  BY <1>4, <1>5, <1>6 DEF WritesTo
<1>12. \A f : ~WritesTo(l, u, f) /\ (WritesTo(k, u, f) => s.writes /\ s.fid = f)
  BY <1>4, <1>6 DEF WritesTo, FileOf
<1>13. s.writes => Matches(lg[s.fid], fs[s.fid].cells)
  <2>1. CASE s.index = 0
    BY <1>3, <2>1, StreamClean
  <2>2. CASE s.err
    BY <1>3, <2>2 DEF StreamInv
  <2> QED
    BY <2>1, <2>2
<1> HIDE DEF u, s
<1>14. Keeps(k, l, F, fs, lg)
  BY <1>11, <1>12, <1>13 DEF Keeps
<1> QED
  BY <1>1, <1>10, <1>14 DEF Keeps

LEMMA ThenData ==
  ASSUME NEW k, NEW F, Refs(F), ProgInv(k, F), k.at = "flush", NEW fs, NEW lg, NEW h,
         Busy(k, F, fs, lg, h), FileOf(k).index = 0 \/ FileOf(k).err
  PROVE  ProgData(Then(k), F, fs, lg, h) /\ Keeps(k, Then(k), F, fs, lg)
<1>1. Prog(k, F) /\ Counted(k, F) /\ About(k, F)
  BY DEF ProgInv, CallOK
<1>2. Shape(k) /\ CallShape(k.call) /\ k.call.u \in F
  BY <1>1 DEF Prog, About
<1>3. \/ k.call.op \in Plain
      \/ k.call.op = "close" /\ Closing(k, F)
      \/ k.call.op = "fclose" /\ LastClosed(k, F)
  BY DEF ProgInv, CallOK
<1> QED
  BY <1>1, <1>2, <1>3, PlainData, CloseData, FcloseData

-----------------------------------------------------------------------------
(* A step of one program leaves alone what the others know.                 *)

LEMMA ProgFrame ==
  ASSUME NEW k, NEW F, NEW fs, NEW lg, NEW h, ProgData(k, F, fs, lg, h), NEW gs, NEW mg, NEW i,
         \A f \in FileNo : h[f] \subseteq i[f],
         \A v \in F : \A f \in FileNo : WritesTo(k, v, f) => gs[f].cells = fs[f].cells /\ mg[f] = lg[f]
  PROVE  ProgData(k, F, gs, mg, i)
<1>1. ASSUME NEW v \in F, k.refcnt[v] # None
      PROVE  StreamInv(k.file[v], Rest(k, v), Telling(k, v), gs, mg, i)
  <2> DEFINE s == k.file[v]
             rest == Rest(k, v)
             telling == Telling(k, v)
  <2>1. StreamInv(s, rest, telling, fs, lg, h)
    BY <1>1 DEF ProgData
  <2>2. s.fid \in FileNo
    BY <2>1 DEF StreamInv, StreamOK
  <2>3. s.writes => WritesTo(k, v, s.fid)
    BY <1>1 DEF WritesTo
  <2>4. h[s.fid] \subseteq i[s.fid] /\ (s.writes => gs[s.fid].cells = fs[s.fid].cells /\ mg[s.fid] = lg[s.fid])
    BY <2>2, <2>3
  <2> HIDE DEF s, rest, telling
  <2>5. StreamInv(s, rest, telling, gs, mg, i)
    BY <2>1, <2>4, StreamFrame
  <2> QED
    BY <2>5 DEF s, rest, telling
<1> QED
  BY <1>1 DEF ProgData

\* Program c becomes l.
Becomes(c, l) == DOMAIN p' = DOMAIN p /\ p'[c] = l /\ \A d \in DOMAIN p : d # c => p'[d] = p[d]

\* The files are there, and what is in them is remembered.
Remembered ==
  \A f \in FileNo : \A i \in 1..Len(files[f].cells) : <<i - 1, files[f].cells[i]>> \in past[f]

\* No other program than c writes to f.
Alone(c, f) == \A d \in DOMAIN p : d # c => \A u \in Fptrs(d) : ~WritesTo(p[d], u, f)

Same(f) == files'[f].cells = files[f].cells /\ log'[f] = log[f]

LEMMA DataStep ==
  ASSUME DataInv, NEW c \in DOMAIN p, NEW l, Becomes(c, l),
         FilesOK', DOMAIN log' = FileNo, Remembered', \A f \in FileNo : past[f] \subseteq past'[f],
         ProgData(l, Fptrs(c), files', log', past'), OneWriter',
         \A f \in FileNo : Same(f) \/ Alone(c, f),
         \A f \in FileNo : (\A u \in Fptrs(c) : ~WritesTo(l, u, f)) =>
           \/ Matches(log'[f], files'[f].cells)
           \/ Same(f) /\ \A u \in Fptrs(c) : ~WritesTo(p[c], u, f)
  PROVE  DataInv'
<1>1. ASSUME NEW d \in DOMAIN p PROVE ProgData(p'[d], Fptrs(d), files', log', past')
  <2>1. CASE d = c
    BY <2>1 DEF Becomes
  <2>2. CASE d # c
    <3>1. p'[d] = p[d] /\ ProgData(p[d], Fptrs(d), files, log, past)
      BY <2>2 DEF Becomes, DataInv
    <3>2. \A v \in Fptrs(d) : \A f \in FileNo :
            WritesTo(p[d], v, f) => files'[f].cells = files[f].cells /\ log'[f] = log[f]
      BY <2>2 DEF Same, Alone
    <3> QED
      BY <3>1, <3>2, ProgFrame
  <2> QED
    BY <2>1, <2>2
<1>2. ASSUME NEW f \in FileNo, \A d \in DOMAIN p' : \A u \in Fptrs(d) : ~WritesTo(p'[d], u, f)
      PROVE  Matches(log'[f], files'[f].cells)
  <2>1. \A u \in Fptrs(c) : ~WritesTo(l, u, f)
    BY <1>2 DEF Becomes
  <2>2. CASE Same(f) /\ \A u \in Fptrs(c) : ~WritesTo(p[c], u, f)
    <3>1. \A d \in DOMAIN p : \A u \in Fptrs(d) : ~WritesTo(p[d], u, f)
      BY <1>2, <2>2 DEF Becomes
    <3>2. Matches(log[f], files[f].cells)
      BY <3>1 DEF DataInv
    <3> QED
      BY <2>2, <3>2 DEF Same
  <2> QED
    BY <2>1, <2>2
<1>3. DOMAIN p' \in Groups
  BY DEF DataInv, Becomes
<1> QED
  BY <1>1, <1>2, <1>3 DEF DataInv, Becomes, Remembered

\* Nobody begins to write.
LEMMA OneWriterKept ==
  ASSUME OneWriter, NEW c \in DOMAIN p, NEW l, Becomes(c, l),
         \A u \in Fptrs(c) : \A f \in FileNo : WritesTo(l, u, f) => WritesTo(p[c], u, f)
  PROVE  OneWriter'
<1>1. \A d \in DOMAIN p : \A u \in Fptrs(d) : \A f \in FileNo : WritesTo(p'[d], u, f) => WritesTo(p[d], u, f)
  BY DEF Becomes
<1> QED
  BY <1>1 DEF OneWriter, Becomes

LEMMA KeepsStep ==
  ASSUME DataInv, NEW c \in DOMAIN p, NEW l, Becomes(c, l),
         FilesOK', DOMAIN log' = FileNo, Remembered', \A f \in FileNo : past[f] \subseteq past'[f],
         ProgData(l, Fptrs(c), files', log', past'), Keeps(p[c], l, Fptrs(c), files', log'),
         \A f \in FileNo : Same(f) \/ \E u \in Fptrs(c) : WritesTo(p[c], u, f)
  PROVE  DataInv'
<1>1. OneWriter'
  BY OneWriterKept DEF Keeps, DataInv
<1>2. \A f \in FileNo : Same(f) \/ Alone(c, f)
  BY DEF DataInv, OneWriter, Alone
<1>3. ASSUME NEW f \in FileNo, \A u \in Fptrs(c) : ~WritesTo(l, u, f)
      PROVE  \/ Matches(log'[f], files'[f].cells)
             \/ Same(f) /\ \A u \in Fptrs(c) : ~WritesTo(p[c], u, f)
  BY <1>3 DEF Keeps
<1> QED
  BY <1>1, <1>2, <1>3, DataStep

\* The files do not change.
LEMMA QuietStep ==
  ASSUME DataInv, NEW c \in DOMAIN p, NEW l, Becomes(c, l), UNCHANGED <<files, log, past>>,
         ProgData(l, Fptrs(c), files, log, past), Keeps(p[c], l, Fptrs(c), files, log)
  PROVE  DataInv'
<1>1. FilesOK' /\ DOMAIN log' = FileNo /\ Remembered' /\ \A f \in FileNo : past[f] \subseteq past'[f] /\ Same(f)
  BY DEF DataInv, FilesOK, Table, Remembered, Same
<1>2. ProgData(l, Fptrs(c), files', log', past') /\ Keeps(p[c], l, Fptrs(c), files', log')
  OBVIOUS
<1> QED
  BY <1>1, <1>2, KeepsStep

-----------------------------------------------------------------------------
(* The requests.                                                            *)

LEMMA BusyIs ==
  ASSUME CountsInv, DataInv, NEW c \in DOMAIN p, p[c].at # "idle"
  PROVE  /\ ProgInv(p[c], Fptrs(c)) /\ Refs(Fptrs(c)) /\ Shape(p[c]) /\ CallShape(p[c].call)
         /\ p[c].call.u \in Fptrs(c) /\ p[c].refcnt[p[c].call.u] # None
         /\ Busy(p[c], Fptrs(c), files, log, past)
<1> DEFINE k == p[c]
           F == Fptrs(c)
           u == k.call.u
<1>1. ProgInv(k, F) /\ Refs(F) /\ Shape(k)
  BY RefsAre
<1>2. CallShape(k.call) /\ u \in F /\ k.refcnt[u] # None
  BY <1>1 DEF ProgInv, CallOK, About
<1>3. ProgData(k, F, files, log, past)
  BY DEF DataInv
<1>4. \A v \in F \ {u} : Rest(k, v) = <<>> /\ Telling(k, v) = FALSE
  BY DEF Rest, Telling
<1>5. Aside(k, F, u, files, log, past)
  BY <1>3, <1>4 DEF Aside, ProgData
<1>6. StreamInv(FileOf(k), Rest(k, u), Telling(k, u), files, log, past)
  BY <1>2, <1>3 DEF ProgData, FileOf
<1> QED
  BY <1>1, <1>2, <1>3, <1>5, <1>6 DEF Busy, ProgData

LEMMA AsideFrame ==
  ASSUME NEW k, NEW F, NEW u \in F, NEW fs, NEW lg, NEW h, Aside(k, F, u, fs, lg, h),
         NEW gs, NEW mg, NEW i, \A f \in FileNo : h[f] \subseteq i[f],
         \A v \in F \ {u} : \A f \in FileNo :
           WritesTo(k, v, f) => gs[f].cells = fs[f].cells /\ mg[f] = lg[f]
  PROVE  Aside(k, F, u, gs, mg, i)
<1>1. ASSUME NEW v \in F \ {u}, k.refcnt[v] # None
      PROVE  StreamInv(k.file[v], <<>>, FALSE, gs, mg, i)
  <2> DEFINE s == k.file[v]
  <2>1. StreamInv(s, <<>>, FALSE, fs, lg, h)
    BY <1>1 DEF Aside
  <2>2. s.fid \in FileNo
    BY <2>1 DEF StreamInv, StreamOK
  <2>3. s.writes => WritesTo(k, v, s.fid)
    BY <1>1 DEF WritesTo
  <2>4. h[s.fid] \subseteq i[s.fid] /\ (s.writes => gs[s.fid].cells = fs[s.fid].cells /\ mg[s.fid] = lg[s.fid])
    BY <2>2, <2>3
  <2> HIDE DEF s
  <2>5. StreamInv(s, <<>>, FALSE, gs, mg, i)
    BY <2>1, <2>4, StreamFrame
  <2> QED
    BY <2>5 DEF s
<1> QED
  BY <1>1 DEF Aside

LEMMA SeenIs ==
  ASSUME FilesOK', past' = Seen(past, files')
  PROVE  Remembered' /\ \A f \in FileNo : past[f] \subseteq past'[f]
<1>1. \A f \in FileNo : past'[f] = past[f] \cup {<<i - 1, files'[f].cells[i]>> : i \in DOMAIN files'[f].cells}
  BY DEF Seen
<1>2. \A f \in FileNo : DOMAIN files'[f].cells = 1..Len(files'[f].cells)
  BY SeqIs DEF FilesOK, Table
<1> QED
  BY <1>1, <1>2 DEF Remembered

LEMMA WriteFileIs ==
  ASSUME NEW fs, Table(fs), NEW uid, NEW f \in FileNo, NEW x \in Nat, NEW text, IsSeq(text)
  PROVE  LET a == WriteFile(fs, uid, f, x, text)
         IN  /\ Table(a.files)
             /\ \A g \in FileNo : g # f => a.files[g] = fs[g]
             /\ a.ok => a.files[f].cells = Put(fs[f].cells, x, text)
             /\ ~a.ok => a.files = fs
<1> DEFINE a == WriteFile(fs, uid, f, x, text)
           q == Put(fs[f].cells, x, text)
           r == [fs[f] EXCEPT !.cells = q]
           gs == [fs EXCEPT ![f] = r]
<1>1. \/ a = Answer(fs, FALSE, 0)
      \/ a = Answer(gs, TRUE, 0)
  BY DEF WriteFile, Refuse
<1>2. IsSeq(q) /\ IsSeq(fs[f].cells) /\ DOMAIN fs = FileNo /\ "cells" \in DOMAIN fs[f]
  BY PutIs DEF Table
<1>3. "cells" \in DOMAIN r /\ r.cells = q
  BY <1>2, Zenon
<1> HIDE DEF q, r
<1>4. DOMAIN gs = FileNo /\ gs[f] = r /\ \A g \in FileNo : g # f => gs[g] = fs[g]
  BY <1>2, Zenon
<1> HIDE DEF gs
<1>5. CASE a = Answer(fs, FALSE, 0)
  <2>1. a.files = fs /\ ~a.ok
    BY <1>5 DEF Answer
  <2> QED
    BY <2>1
<1>6. CASE a = Answer(gs, TRUE, 0)
  <2>1. a.files = gs /\ a.ok
    BY <1>6 DEF Answer
  <2> HIDE DEF a
  <2>2. Table(gs)
    BY <1>2, <1>3, <1>4 DEF Table
  <2> QED
    BY <1>3, <1>4, <2>1, <2>2 DEF q, a
<1> QED
  BY <1>1, <1>5, <1>6

\* A program whose stream changed still knows what it knew.
LEMMA WithBusy ==
  ASSUME NEW k, Shape(k), k.at # "idle", NEW F, k.call.u \in F, NEW fs, NEW lg, NEW h,
         Aside(k, F, k.call.u, fs, lg, h), CallData(k.call), NEW s,
         s.fid = FileOf(k).fid, s.writes = FileOf(k).writes,
         StreamInv(s, Rest(k, k.call.u), Telling(k, k.call.u), fs, lg, h)
  PROVE  /\ Busy(With(k, s), F, fs, lg, h) /\ FileOf(With(k, s)) = s
         /\ \A v \in F : \A f : WritesTo(With(k, s), v, f) <=> WritesTo(k, v, f)
<1> DEFINE u == k.call.u
           l == With(k, s)
<1>1. Shape(l) /\ l.at = k.at /\ l.call = k.call /\ l.refcnt = k.refcnt
  BY WithIs
<1>2. OneFile(k, l, F, u, s)
  BY WithFile DEF Aside
<1> HIDE DEF l
<1>3. FileOf(l) = s
  BY <1>1, <1>2 DEF FileOf, OneFile
<1>4. Aside(l, F, u, fs, lg, h)
  BY <1>1, <1>2 DEF Aside, OneFile
<1>5. Rest(l, u) = Rest(k, u) /\ Telling(l, u) = Telling(k, u)
  BY <1>1 DEF Rest, Telling
<1>6. \A v \in F : \A f : WritesTo(l, v, f) <=> WritesTo(k, v, f)
  <2>1. \A v \in F : l.file[v].fid = k.file[v].fid /\ l.file[v].writes = k.file[v].writes
    BY <1>2 DEF OneFile
  <2> QED
    BY <1>1, <2>1 DEF WritesTo
<1> QED
  BY <1>1, <1>3, <1>4, <1>5, <1>6 DEF Busy, l

LEMMA FlushData ==
  ASSUME CountsInv, DataInv, NEW c \in DOMAIN p, Flush(c)
  PROVE  DataInv'
<1> DEFINE k == p[c]
           F == Fptrs(c)
           s == FileOf(k)
           u == k.call.u
           f == s.fid
           a == WriteFile(files, Uid[c], f, s.pos, Out(s))
<1>1. k.at = "flush"
  BY DEF Flush
<1>2. /\ ProgInv(k, F) /\ Refs(F) /\ Shape(k) /\ CallShape(k.call) /\ u \in F /\ k.refcnt[u] # None
      /\ Busy(k, F, files, log, past)
  BY <1>1, BusyIs
<1>3. CASE s.index = 0
  <2>1. p' = [p EXCEPT ![c] = Then(k)] /\ UNCHANGED <<files, log, past>>
    BY <1>3 DEF Flush
  <2>2. ProgData(Then(k), F, files, log, past) /\ Keeps(k, Then(k), F, files, log)
    BY <1>1, <1>2, <1>3, ThenData
  <2>3. Becomes(c, Then(k))
    BY <2>1 DEF Becomes
  <2> QED
    BY <2>1, <2>2, <2>3, QuietStep
<1>4. CASE s.index # 0
  <2> DEFINE s2 == IF a.ok THEN Flushed(s) ELSE [s EXCEPT !.err = TRUE]
             l == With(k, s2)
             rest == Rest(k, u)
             telling == Telling(k, u)
  <2>1. /\ files' = a.files /\ past' = Seen(past, files') /\ p' = [p EXCEPT ![c] = Then(l)]
        /\ log' = IF a.ok THEN log ELSE [log EXCEPT ![f] = NoLog]
    BY <1>4 DEF Flush
  <2>2. StreamInv(s, rest, telling, files, log, past) /\ StreamOK(s)
    BY <1>2 DEF Busy, StreamInv
  <2>3. s.writes /\ f \in FileNo /\ s.pos \in Nat /\ IsSeq(Out(s))
    BY <1>4, <2>2, OutIs DEF StreamOK
  <2>4. /\ FilesOK'
        /\ \A g \in FileNo : g # f => files'[g] = files[g]
        /\ a.ok => files'[f].cells = Put(files[f].cells, s.pos, Out(s))
    <3>1. Table(files)
      BY DEF DataInv, FilesOK
    <3> DEFINE x == s.pos
               text == Out(s)
               i == Uid[c]
               b == WriteFile(files, i, f, x, text)
    <3>2. f \in FileNo /\ x \in Nat /\ IsSeq(text)
      BY <2>3
    <3> HIDE DEF f, x, text, i
    <3>3. Table(b.files)
      BY <3>1, <3>2, WriteFileIs
    <3>5. \A g \in FileNo : g # f => b.files[g] = files[g]
      BY <3>1, <3>2, WriteFileIs
    <3>6. b.ok => b.files[f].cells = Put(files[f].cells, x, text)
      BY <3>1, <3>2, WriteFileIs
    <3>4. files' = b.files /\ (a.ok <=> b.ok)
      BY <2>1 DEF i, f, x, text
    <3> HIDE DEF a, b
    <3> QED
      BY <3>3, <3>4, <3>5, <3>6 DEF FilesOK, x, text, f
  <2>5. Remembered' /\ \A g \in FileNo : past[g] \subseteq past'[g]
    BY <2>1, <2>4, SeenIs
  <2>6. /\ DOMAIN log' = FileNo /\ \A g \in FileNo : g # f => log'[g] = log[g]
        /\ (a.ok => log' = log) /\ (~a.ok => log'[f] = NoLog)
    BY <2>1, <2>3 DEF DataInv
  <2>7. WritesTo(k, u, f)
    BY <1>2, <2>3 DEF WritesTo, FileOf
  <2>8. \A g \in FileNo : Same(g) \/ g = f
    BY <2>4, <2>6 DEF Same
  <2>9. Aside(k, F, u, files', log', past')
    <3>1. Aside(k, F, u, files, log, past)
      BY <1>2 DEF Busy
    <3>2. \A v \in F \ {u} : ~WritesTo(k, v, f)
      BY <1>2, <2>3, <2>7 DEF DataInv, OneWriter
    <3>3. \A v \in F \ {u} : \A g \in FileNo :
            WritesTo(k, v, g) => files'[g].cells = files[g].cells /\ log'[g] = log[g]
      BY <3>2, <2>8 DEF Same
    <3> QED
      BY <1>2, <2>5, <3>1, <3>3, AsideFrame
  <2>10. /\ StreamInv(s2, rest, telling, files', log', past')
         /\ s2.fid = s.fid /\ s2.writes = s.writes /\ (s2.index = 0 \/ s2.err)
    <3>1. CASE a.ok
      <4>1. s2 = Flushed(s) /\ log' = log
        BY <2>6, <3>1
      <4>2. s2.fid = s.fid /\ s2.writes = s.writes /\ s2.index = 0
        BY <2>2, <4>1 DEF StreamOK, Flushed
      <4>3. IsSeq(files[f].cells) /\ past[f] \subseteq past'[f]
            /\ files'[f].cells = Put(files[f].cells, s.pos, Out(s))
        BY <2>3, <2>4, <2>5, <3>1 DEF DataInv, FilesOK, Table
      <4> HIDE DEF s, s2, a, rest, telling
      <4>4. StreamInv(Flushed(s), rest, telling, files', log, past')
        BY <1>4, <2>2, <4>3, StreamFlushed
      <4> QED
        BY <4>1, <4>2, <4>4
    <3>2. CASE ~a.ok
      <4>1. s2 = [s EXCEPT !.err = TRUE] /\ log'[f] = NoLog
        BY <2>6, <3>2
      <4>2. s2.fid = s.fid /\ s2.writes = s.writes /\ s2.err
        BY <2>2, <4>1 DEF StreamOK
      <4> HIDE DEF s, s2, a, rest, telling
      <4>3. StreamInv([s EXCEPT !.err = TRUE], rest, telling, files', log', past')
        BY <2>2, <2>3, <4>1, StreamFailed
      <4> QED
        BY <4>1, <4>2, <4>3
    <3> QED
      BY <3>1, <3>2
  <2> HIDE DEF s2, a
  <2>11. CallData(k.call) /\ k.at # "idle"
    BY <1>1, <1>2 DEF Busy
  <2>12. /\ Busy(l, F, files', log', past') /\ FileOf(l) = s2
         /\ \A v \in F : \A g : WritesTo(l, v, g) <=> WritesTo(k, v, g)
    BY <1>2, <2>9, <2>10, <2>11, WithBusy
  <2>13. ProgInv(l, F) /\ l.at = "flush"
    BY <1>1, <1>2, WithInv, WithIs
  <2> HIDE DEF l
  <2>14. ProgData(Then(l), F, files', log', past') /\ Keeps(l, Then(l), F, files', log')
    BY <1>2, <2>10, <2>12, <2>13, ThenData
  <2>15. Keeps(k, Then(l), F, files', log')
    BY <2>12, <2>14 DEF Keeps
  <2>16. Becomes(c, Then(l))
    BY <2>1 DEF Becomes
  <2>17. \A g \in FileNo : Same(g) \/ \E v \in F : WritesTo(k, v, g)
    BY <1>2, <2>7, <2>8
  <2> QED
    BY <2>4, <2>5, <2>6, <2>14, <2>15, <2>16, <2>17, KeepsStep
<1> QED
  BY <1>3, <1>4

\* What is read of a file was in it there.
LEMMA PartIs ==
  ASSUME NEW q, IsSeq(q), NEW x \in Nat, NEW e \in Int, e <= Len(q)
  PROVE  LET v == SubSeq(q, x + 1, e)
         IN  IsSeq(v) /\ \A i \in 1..Len(v) : x + i \in 1..Len(q) /\ v[i] = q[x + i]
<1> DEFINE v == SubSeq(q, x + 1, e)
           n == IF x + 1 > e THEN 0 ELSE e - x
<1>1. Len(q) \in Nat
  BY SeqIs
<1>2. q \in Seq(Range(q))
  BY DEF IsSeq
<1>3. v = [i \in 1..n |-> q[i + (x + 1) - 1]]
  BY <1>2
<1>4. n \in Nat /\ \A i \in 1..n : x + i \in 1..Len(q) /\ i + (x + 1) - 1 = x + i
  BY <1>1
<1> HIDE DEF n
<1>5. v = [i \in 1..n |-> v[i]] /\ \A i \in 1..n : v[i] = q[x + i]
  BY <1>3, <1>4
<1> HIDE DEF v
<1>6. IsSeq(v) /\ Len(v) = n
  BY <1>4, <1>5, IsSeqOf
<1> QED
  BY <1>4, <1>5, <1>6 DEF v

LEMMA ReadFileIs ==
  ASSUME NEW fs, Table(fs), NEW uid, NEW f \in FileNo, NEW x \in Nat, NEW n \in Int
  PROVE  LET a == ReadFile(fs, uid, f, x, n)
             cells == fs[f].cells
         IN  a.ok => /\ IsSeq(a.value)
                     /\ \A i \in 1..Len(a.value) : x + i \in 1..Len(cells) /\ a.value[i] = cells[x + i]
<1> DEFINE a == ReadFile(fs, uid, f, x, n)
           cells == fs[f].cells
           e == Min({x + n, Len(cells)})
           v == SubSeq(cells, x + 1, e)
<1>1. a = Answer(fs, FALSE, 0) \/ a = Answer(fs, TRUE, v)
  BY DEF ReadFile, Refuse
<1>2. a.ok => a.value = v
  <2> HIDE DEF a, v
  <2> QED
    BY <1>1 DEF Answer
<1>3. IsSeq(cells) /\ Len(cells) \in Nat
  BY SeqIs DEF Table
<1>4. e \in Int /\ e <= Len(cells)
  <2> DEFINE len == Len(cells)
             y == x + n
  <2>1. len \in Int /\ y \in Int
    BY <1>3
  <2> HIDE DEF len, y
  <2>2. Min({y, len}) = IF y <= len THEN y ELSE len
    BY <2>1, MinOfTwo
  <2> QED
    BY <2>1, <2>2 DEF len, y
<1> HIDE DEF cells, e
<1>5. IsSeq(v) /\ \A i \in 1..Len(v) : x + i \in 1..Len(cells) /\ v[i] = cells[x + i]
  BY <1>3, <1>4, PartIs
<1> QED
  BY <1>2, <1>5 DEF cells

LEMMA FillData ==
  ASSUME CountsInv, DataInv, NEW c \in DOMAIN p, Fill(c)
  PROVE  DataInv'
<1> DEFINE k == p[c]
           F == Fptrs(c)
           s == FileOf(k)
           u == k.call.u
           f == s.fid
           room == BufSize - Len(s.in)
           x == s.pos + Len(s.in)
           a == ReadFile(files, Uid[c], f, x, room)
           v == a.value
           s1 == [s EXCEPT !.in = @ \o v, !.eof = @ \/ v = <<>>]
           s2 == [s EXCEPT !.err = TRUE]
           b == k.call.op = "read" /\ Len(v) < room
           l == With(k, s1)
           w == [l.call EXCEPT !.short = b]
           k1 == [l EXCEPT !.call = w]
<1>1. k.at = "fill" /\ UNCHANGED <<files, log, past>>
  BY DEF Fill
<1>2. /\ ProgInv(k, F) /\ Refs(F) /\ Shape(k) /\ CallShape(k.call) /\ u \in F /\ k.refcnt[u] # None
      /\ Busy(k, F, files, log, past)
  BY <1>1, BusyIs
<1>3. p' = [p EXCEPT ![c] = IF a.ok THEN Deliver(k1) ELSE Return(With(k, s2))]
  BY DEF Fill
<1>4. k.call.op \in {"read", "gets"} /\ s.index = 0
  <2>1. CallOK(k, F)
    BY <1>1, <1>2 DEF ProgInv
  <2>2. ProgData(k, F, files, log, past)
    BY DEF DataInv
  <2> QED
    BY <1>1, <2>1, <2>2 DEF CallOK, ProgData, FileOf
<1>5. Rest(k, u) = <<>> /\ Telling(k, u) = FALSE
  BY <1>4 DEF Rest, Telling
<1>6. StreamInv(s, <<>>, FALSE, files, log, past) /\ StreamOK(s)
  BY <1>2, <1>5 DEF Busy, StreamInv
<1>7. Aside(k, F, u, files, log, past) /\ CallData(k.call) /\ k.file = [y \in F |-> k.file[y]]
  BY <1>2 DEF Busy, Aside
<1>8. CASE ~a.ok
  <2>1. s2.fid = s.fid /\ s2.writes = s.writes
    BY <1>6 DEF StreamOK
  <2>2. StreamInv(s2, <<>>, FALSE, files, log, past)
    <3> HIDE DEF s
    <3> QED
      BY <1>4, <1>6, StreamUnread DEF s
  <2> HIDE DEF s2
  <2> DEFINE m == With(k, s2)
  <2>3. Shape(m) /\ OneFile(k, m, F, u, s2)
    BY <1>2, <1>7, <2>1, WithIs, WithFile
  <2>4. p' = [p EXCEPT ![c] = Return(m)]
    BY <1>3, <1>8
  <2> HIDE DEF m
  <2>5. ProgData(Return(m), F, files, log, past) /\ Keeps(k, Return(m), F, files, log)
    BY <1>2, <1>7, <2>2, <2>3, ReturnsData
  <2>6. Becomes(c, Return(m))
    BY <2>4 DEF Becomes
  <2> QED
    BY <1>1, <2>5, <2>6, QuietStep
<1>9. CASE a.ok
  <2>1. p' = [p EXCEPT ![c] = Deliver(k1)]
    BY <1>3, <1>9
  <2>2. IsSeq(v) /\ \A i \in 1..Len(v) : <<s.pos + Len(s.in) + i - 1, v[i]>> \in past[f]
    <3>1. Len(s.in) \in Nat /\ s.pos \in Nat /\ f \in FileNo
      BY <1>6, SeqIs DEF StreamOK
    <3>2. x \in Nat /\ room \in Int
      BY <3>1, BufSizeAssumption
    <3>3. Table(files)
      BY DEF DataInv, FilesOK
    <3> DEFINE i0 == Uid[c]
               z == x
               n == room
               g == f
               d == ReadFile(files, i0, g, z, n)
    <3>4. z \in Nat /\ n \in Int /\ g \in FileNo /\ d = a /\ z = s.pos + Len(s.in)
      BY <3>1, <3>2
    <3> HIDE DEF i0, z, n, g, a
    <3>5. d.ok => /\ IsSeq(d.value)
                  /\ \A i \in 1..Len(d.value) : z + i \in 1..Len(files[g].cells) /\ d.value[i] = files[g].cells[z + i]
      BY <3>3, <3>4, ReadFileIs
    <3>6. IsSeq(v) /\ \A i \in 1..Len(v) : z + i \in 1..Len(files[g].cells) /\ v[i] = files[g].cells[z + i]
      BY <1>9, <3>4, <3>5
    <3> HIDE DEF v, d
    <3>7. \A i \in 1..Len(files[g].cells) : <<i - 1, files[g].cells[i]>> \in past[g]
      BY <3>4 DEF DataInv
    <3>8. \A i \in 1..Len(v) : <<z + i - 1, v[i]>> \in past[g]
      <4> SUFFICES ASSUME NEW i \in 1..Len(v) PROVE <<z + i - 1, v[i]>> \in past[g]
        OBVIOUS
      <4> DEFINE j == z + i
                 q == files[g].cells
      <4>1. j \in 1..Len(q) /\ v[i] = q[j]
        BY <3>6
      <4>2. \A y \in 1..Len(q) : <<y - 1, q[y]>> \in past[g]
        BY <3>7
      <4> HIDE DEF q
      <4>3. <<j - 1, q[j]>> \in past[g]
        BY <4>1, <4>2
      <4>4. j - 1 = z + i - 1
        BY <3>4
      <4> HIDE DEF j
      <4> QED
        BY <4>1, <4>3, <4>4
    <3> QED
      BY <3>4, <3>6, <3>8 DEF g
  <2>3. s1.fid = s.fid /\ s1.writes = s.writes /\ s1.index = 0
    BY <1>4, <1>6 DEF StreamOK
  <2>4. StreamInv(s1, <<>>, FALSE, files, log, past)
    <3> DEFINE e == v = <<>>
    <3>1. s1 = [s EXCEPT !.in = @ \o v, !.eof = @ \/ e]
      OBVIOUS
    <3> HIDE DEF s, v, s1, e
    <3> QED
      BY <1>4, <1>6, <2>2, <3>1, StreamFilled DEF f
  <2> HIDE DEF s1
  <2>5. Shape(l) /\ l.call = k.call /\ l.refcnt = k.refcnt /\ OneFile(k, l, F, u, s1)
    BY <1>2, <1>7, <2>3, WithIs, WithFile
  <2> HIDE DEF l, b
  <2>6. CallShape(w) /\ w.op = k.call.op /\ w.u = u /\ CallData(w)
    <3>1. /\ DOMAIN w = DOMAIN k.call /\ w.op = k.call.op /\ w.u = u /\ w.size = k.call.size /\ w.n = k.call.n
      BY <1>2, <1>4, <1>7, <2>5 DEF CallShape, CallData
    <3> HIDE DEF w
    <3> QED
      BY <1>2, <1>4, <1>7, <3>1 DEF CallShape, CallData
  <2> HIDE DEF w
  <2>7. Shape(k1) /\ k1.call = w /\ k1.file = l.file /\ k1.refcnt = l.refcnt
    BY <2>5 DEF Shape
  <2> HIDE DEF k1
  <2>8. Aside(k1, F, u, files, log, past) /\ FileOf(k1) = s1
    BY <1>7, <2>5, <2>6, <2>7 DEF Aside, OneFile, FileOf
  <2>9. ProgData(Deliver(k1), F, files, log, past) /\ Keeps(k1, Deliver(k1), F, files, log)
    BY <1>2, <1>4, <2>3, <2>4, <2>6, <2>7, <2>8, DeliverData
  <2>10. \A y \in F : \A g : WritesTo(k1, y, g) <=> WritesTo(k, y, g)
    <3>1. \A y \in F : k1.file[y].fid = k.file[y].fid /\ k1.file[y].writes = k.file[y].writes
      BY <2>5, <2>7 DEF OneFile
    <3> QED
      BY <2>5, <2>7, <3>1 DEF WritesTo
  <2>11. Keeps(k, Deliver(k1), F, files, log)
    BY <2>9, <2>10 DEF Keeps
  <2>12. Becomes(c, Deliver(k1))
    BY <2>1 DEF Becomes
  <2> QED
    BY <1>1, <2>9, <2>11, <2>12, QuietStep
<1> QED
  BY <1>8, <1>9

LEMMA StatEndData ==
  ASSUME CountsInv, DataInv, NEW c \in DOMAIN p, StatEnd(c)
  PROVE  DataInv'
<1> DEFINE k == p[c]
           F == Fptrs(c)
           s == FileOf(k)
           u == k.call.u
           a == StatFile(files, Uid[c], s.fid)
           w == [k.call EXCEPT !.x = Len(a.value.cells) + @]
           k1 == [k EXCEPT !.call = w]
           q == Goto(k1, "flush", "seek")
<1>1. k.at = "stat" /\ UNCHANGED <<files, log, past>>
  BY DEF StatEnd
<1>2. /\ ProgInv(k, F) /\ Refs(F) /\ Shape(k) /\ CallShape(k.call) /\ u \in F /\ k.refcnt[u] # None
      /\ Busy(k, F, files, log, past)
  BY <1>1, BusyIs
<1>3. p' = [p EXCEPT ![c] = IF a.ok THEN q ELSE Return(k)]
  BY DEF StatEnd
<1>4. k.call.op = "seek"
  BY <1>1, <1>2 DEF ProgInv, CallOK
<1>5. Rest(k, u) = <<>> /\ Telling(k, u) = FALSE
  BY <1>4 DEF Rest, Telling
<1>6. StreamInv(s, <<>>, FALSE, files, log, past) /\ StreamOK(s)
  BY <1>2, <1>5 DEF Busy, StreamInv
<1>7. Aside(k, F, u, files, log, past) /\ CallData(k.call) /\ k.file = [y \in F |-> k.file[y]]
  BY <1>2 DEF Busy, Aside
<1>8. OneFile(k, k, F, u, s)
  BY <1>7 DEF OneFile, FileOf
<1>9. CASE ~a.ok
  <2>1. p' = [p EXCEPT ![c] = Return(k)]
    BY <1>3, <1>9
  <2>2. ProgData(Return(k), F, files, log, past) /\ Keeps(k, Return(k), F, files, log)
    BY <1>2, <1>6, <1>7, <1>8, ReturnsData
  <2>3. Becomes(c, Return(k))
    BY <2>1 DEF Becomes
  <2> QED
    BY <1>1, <2>2, <2>3, QuietStep
<1>10. CASE a.ok
  <2>1. p' = [p EXCEPT ![c] = q]
    BY <1>3, <1>10
  <2>2. a.value = files[s.fid]
    <3>1. a = Refuse(files) \/ a = Answer(files, TRUE, files[s.fid])
      BY DEF StatFile
    <3> HIDE DEF a
    <3> QED
      BY <1>10, <3>1 DEF Refuse, Answer
  <2>3. Len(a.value.cells) \in Nat
    <3>1. s.fid \in FileNo
      BY <1>6 DEF StreamOK
    <3>2. IsSeq(files[s.fid].cells)
      BY <3>1 DEF DataInv, FilesOK, Table
    <3>3. Len(files[s.fid].cells) \in Nat
      BY <3>2, SeqIs
    <3> HIDE DEF a
    <3> QED
      BY <2>2, <3>3
  <2> DEFINE len == Len(a.value.cells)
  <2> HIDE DEF len
  <2>4. CallShape(w) /\ w.op = "seek" /\ w.u = u /\ CallData(w)
    <3>1. /\ {"whence", "x"} \subseteq DOMAIN w /\ w.x = len + k.call.x /\ k.call.x \in Nat
          /\ CallShape(w) /\ w.op = "seek" /\ w.u = u
      BY <1>2, <1>4, <1>7 DEF CallShape, CallData, len
    <3> HIDE DEF w
    <3>2. len \in Nat
      BY <2>3 DEF len
    <3>3. w.x \in Nat
      BY <3>1, <3>2
    <3> QED
      BY <3>1, <3>3 DEF CallData
  <2> HIDE DEF w
  <2>5. Shape(k1) /\ k1.call = w /\ k1.file = k.file /\ k1.refcnt = k.refcnt
    BY <1>2 DEF Shape
  <2> DEFINE at == "flush"
             op == "seek"
  <2>6. q = Goto(k1, at, op) /\ op # "write" /\ op # "tell" /\ at # "idle" /\ at # "fill"
    OBVIOUS
  <2>7. w = [k1.call EXCEPT !.op = op]
    BY <2>4, <2>5 DEF w
  <2> HIDE DEF k1, at, op, q
  <2>8. StreamInv(s, IF op = "write" THEN w.rest ELSE <<>>, op = "tell", files, log, past)
    <3>1. (op = "tell") = FALSE /\ (IF op = "write" THEN w.rest ELSE <<>>) = <<>>
      BY <2>6
    <3> HIDE DEF s
    <3> QED
      BY <1>6, <3>1
  <2>9. OneFile(k, k1, F, u, s)
    BY <1>8, <2>5 DEF OneFile
  <2>10. k1.call.u = u /\ CallShape(k1.call)
    BY <2>4, <2>5
  <2>11. ProgData(q, F, files, log, past) /\ Keeps(k, q, F, files, log)
    <3> HIDE DEF s, u, F, k
    <3>1. ProgData(Goto(k1, at, op), F, files, log, past) /\ Keeps(k, Goto(k1, at, op), F, files, log)
      BY <1>2, <1>7, <2>4, <2>5, <2>6, <2>7, <2>8, <2>9, <2>10, GotoData
    <3> QED
      BY <2>6, <3>1
  <2>12. Becomes(c, q)
    BY <2>1 DEF Becomes
  <2> QED
    BY <1>1, <2>11, <2>12, QuietStep
<1> QED
  BY <1>9, <1>10

-----------------------------------------------------------------------------
(* The calls.                                                               *)

LEMMA IdleIs ==
  ASSUME CountsInv, DataInv, NEW c \in DOMAIN p, p[c].at = "idle"
  PROVE  /\ ProgInv(p[c], Fptrs(c)) /\ Refs(Fptrs(c)) /\ Shape(p[c]) /\ c \in Clients
         /\ Quiet(p[c], Fptrs(c), files, log, past)
         /\ \A u \in Fptrs(c) : Aside(p[c], Fptrs(c), u, files, log, past)
<1> DEFINE k == p[c]
           F == Fptrs(c)
<1>1. ProgInv(k, F) /\ Refs(F) /\ Shape(k) /\ c \in Clients
  BY RefsAre
<1>2. ProgData(k, F, files, log, past)
  BY DEF DataInv
<1>3. \A v \in F : Rest(k, v) = <<>> /\ Telling(k, v) = FALSE
  BY DEF Rest, Telling
<1>4. Quiet(k, F, files, log, past)
  BY <1>2, <1>3 DEF Quiet, ProgData
<1> QED
  BY <1>1, <1>4 DEF Quiet, Aside

\* The stream of an open descriptor.
LEMMA UsableIs ==
  ASSUME CountsInv, DataInv, NEW c \in DOMAIN p, NEW fd \in Fds, Usable(c, fd)
  PROVE  LET u == p[c].fds[fd]
         IN  /\ u \in Fptrs(c) /\ u # None /\ p[c].refcnt[u] # None
             /\ StreamInv(p[c].file[u], <<>>, FALSE, files, log, past)
             /\ StreamOK(p[c].file[u])
             /\ p[c].file = [v \in Fptrs(c) |-> p[c].file[v]]
             /\ Aside(p[c], Fptrs(c), u, files, log, past)
             /\ ProgInv(p[c], Fptrs(c)) /\ Refs(Fptrs(c)) /\ Shape(p[c]) /\ p[c].at = "idle"
<1> DEFINE k == p[c]
           F == Fptrs(c)
           u == k.fds[fd]
<1>1. k.at = "idle" /\ u # None
  BY DEF Usable
<1>2. ProgInv(k, F) /\ Refs(F) /\ Shape(k) /\ Quiet(k, F, files, log, past)
      /\ \A v \in F : Aside(k, F, v, files, log, past)
  BY <1>1, IdleIs
<1>3. u \in F /\ k.refcnt[u] # None
  BY <1>1, <1>2, OpenIs
<1>4. StreamInv(k.file[u], <<>>, FALSE, files, log, past)
  BY <1>2, <1>3 DEF Quiet
<1> QED
  BY <1>1, <1>2, <1>3, <1>4 DEF StreamInv, Quiet

\* Calls that only name a stream.
LEMMA CallingData ==
  ASSUME CountsInv, DataInv, NEW c \in DOMAIN p, NEW fd \in Fds, Usable(c, fd),
         NEW w, NEW at, Calling(c, w, at), w.u = p[c].fds[fd], CallData(w),
         w.op # "write", w.op # "tell", at # "idle", at # "fill",
         UNCHANGED <<files, log, past>>
  PROVE  DataInv'
<1> DEFINE k == p[c]
           F == Fptrs(c)
           u == k.fds[fd]
           s == k.file[u]
           l == [k EXCEPT !.at = at, !.call = w]
<1>1. /\ u \in F /\ StreamInv(s, <<>>, FALSE, files, log, past) /\ Shape(k)
      /\ k.file = [v \in F |-> k.file[v]] /\ Aside(k, F, u, files, log, past)
  BY UsableIs
<1>2. p' = [p EXCEPT ![c] = l]
  BY DEF Calling
<1>3. l.at = at /\ l.call = w /\ l.file = k.file /\ l.refcnt = k.refcnt
  BY <1>1 DEF Shape
<1> HIDE DEF l
<1>4. OneFile(k, l, F, u, s)
  BY <1>1, <1>3 DEF OneFile
<1>5. Rest(l, u) = <<>> /\ Telling(l, u) = FALSE
  BY <1>3 DEF Rest, Telling
<1>6. Becomes(c, l)
  BY <1>2 DEF Becomes
<1> HIDE DEF s
<1>7. ProgData(l, F, files, log, past) /\ Keeps(k, l, F, files, log)
  <2>1. StreamInv(s, Rest(l, u), Telling(l, u), files, log, past)
    BY <1>1, <1>5
  <2>2. l.at # "idle" => l.call.u = u /\ CallData(l.call)
    BY <1>3
  <2>3. l.at # "fill"
    BY <1>3
  <2> HIDE DEF u, k, F
  <2> QED
    BY <1>1, <1>4, <2>1, <2>2, <2>3, OneFileData
<1> QED
  BY <1>6, <1>7, QuietStep

LEMMA ReadData ==
  ASSUME CountsInv, DataInv, NEW c \in DOMAIN p, NEW fd \in Fds, NEW op \in {"read", "gets"},
         NEW item \in Items, op = "gets" => item.size = 1, Read(c, fd, op, item)
  PROVE  DataInv'
<1> DEFINE w == [op |-> op, fd |-> fd, u |-> p[c].fds[fd], from |-> None,
                 size |-> item.size, n |-> item.n, short |-> FALSE]
           at == "flush"
<1>1. Usable(c, fd) /\ Calling(c, w, at) /\ UNCHANGED <<files, log, past>>
  BY DEF Read
<1>2. w.u = p[c].fds[fd] /\ w.op # "write" /\ w.op # "tell" /\ CallData(w)
  <2>1. item.size \in 1..BufSize /\ item.n \in Nat /\ (Simple => item.size = 1 \/ item.n = 1)
    BY ItemsAssumption DEF Simple
  <2> QED
    BY <2>1 DEF CallData
<1>3. at # "idle" /\ at # "fill"
  OBVIOUS
<1> HIDE DEF w, at
<1> QED
  BY <1>1, <1>2, <1>3, CallingData

\* close(), fflushsync(), and dup2() of a descriptor that is open.
LEMMA CloseCallData ==
  ASSUME CountsInv, DataInv, NEW c \in DOMAIN p, NEW fd \in Fds, Usable(c, fd),
         NEW w, w.u = p[c].fds[fd], w.op \in {"close", "sync"}, Calling(c, w, "flush"),
         UNCHANGED <<files, log, past>>
  PROVE  DataInv'
<1> DEFINE at == "flush"
<1>1. Calling(c, w, at) /\ at # "idle" /\ at # "fill"
  OBVIOUS
<1>2. CallData(w)
  BY DEF CallData
<1> HIDE DEF at
<1> QED
  BY <1>1, <1>2, CallingData

LEMMA SeekData ==
  ASSUME CountsInv, DataInv, NEW c \in DOMAIN p, NEW fd \in Fds, NEW whence, NEW x \in Nat,
         Seek(c, fd, whence, x)
  PROVE  DataInv'
<1> DEFINE k == p[c]
           F == Fptrs(c)
           u == k.fds[fd]
           w == [op |-> "seek", fd |-> fd, u |-> k.fds[fd], from |-> None,
                 whence |-> whence, x |-> x]
           v == [w EXCEPT !.op = "tell"]
           s == [k.file[w.u] EXCEPT !.eof = FALSE]
           m == [k.file EXCEPT ![w.u] = s]
           l == [k EXCEPT !.at = "flush", !.call = v, !.file = m]
<1>1. Usable(c, fd) /\ UNCHANGED <<files, log, past>>
  BY DEF Seek
<1>2. /\ u \in F /\ StreamInv(k.file[u], <<>>, FALSE, files, log, past) /\ Shape(k)
      /\ k.file = [y \in F |-> k.file[y]] /\ Aside(k, F, u, files, log, past)
      /\ StreamOK(k.file[u])
  BY <1>1, UsableIs
<1>3. /\ w.u = u /\ w.op = "seek" /\ CallData(w)
      /\ v.u = u /\ v.op = "tell" /\ CallData(v)
  BY DEF CallData
<1>4. \/ Calling(c, w, "stat") \/ Calling(c, w, "flush")
      \/ p' = [p EXCEPT ![c].at = "flush", ![c].call = v, ![c].file[w.u].eof = FALSE]
  BY DEF Seek
<1>5. ASSUME NEW at \in {"stat", "flush"}, Calling(c, w, at) PROVE DataInv'
  <2> HIDE DEF w
  <2> QED
    BY <1>1, <1>3, <1>5, CallingData
<1>6. CASE p' = [p EXCEPT ![c].at = "flush", ![c].call = v, ![c].file[w.u].eof = FALSE]
  <2>1. DOMAIN p' = DOMAIN p /\ \A d \in DOMAIN p : d # c => p'[d] = p[d]
    BY <1>6
  <2>2. p'[c] = l
    <3> HIDE DEF v
    <3> QED
      BY <1>2, <1>6 DEF Shape
  <2>3. m = [y \in F |-> m[y]] /\ m[u] = s /\ \A y \in F \ {u} : m[y] = k.file[y]
    <3> HIDE DEF s
    <3> QED
      BY <1>2, <1>3, Zenon
  <2>4. /\ s.fid = k.file[u].fid /\ s.writes = k.file[u].writes
        /\ StreamInv(s, <<>>, TRUE, files, log, past)
    <3> DEFINE t == k.file[u]
    <3>1. StreamInv(t, <<>>, FALSE, files, log, past) /\ s = [t EXCEPT !.eof = FALSE]
      BY <1>2, <1>3
    <3> HIDE DEF t, s
    <3>2. /\ s.fid = t.fid /\ s.writes = t.writes /\ s.pos = t.pos /\ s.where = t.where
          /\ s.err = t.err /\ s.buf = t.buf /\ s.index = t.index /\ s.in = t.in
          /\ s = [f \in {"fid", "writes", "pos", "where", "eof", "err", "mode", "buf", "index", "in"} |-> s[f]]
      BY <3>1 DEF StreamInv, StreamOK
    <3>3. StreamOK(s)
      BY <3>1, <3>2 DEF StreamInv, StreamOK
    <3>4. StreamInv(s, <<>>, TRUE, files, log, past)
      BY <3>1, <3>2, <3>3, StreamSame
    <3> QED
      BY <3>2, <3>4 DEF t
  <2> HIDE DEF m, s, v
  <2>5. l.at = "flush" /\ l.call = v /\ l.file = m /\ l.refcnt = k.refcnt
    BY <1>2 DEF Shape
  <2> HIDE DEF l
  <2>6. OneFile(k, l, F, u, s)
    BY <2>3, <2>4, <2>5 DEF OneFile
  <2>7. Rest(l, u) = <<>> /\ Telling(l, u) = TRUE
    BY <1>3, <2>5 DEF Rest, Telling
  <2>8. StreamInv(s, Rest(l, u), Telling(l, u), files, log, past)
    BY <2>4, <2>7
  <2>9. l.at # "fill" /\ l.call.u = u /\ CallData(l.call)
    BY <1>3, <2>5
  <2>10. Becomes(c, l)
    BY <2>1, <2>2 DEF Becomes
  <2>11. ProgData(l, F, files, log, past) /\ Keeps(k, l, F, files, log)
    <3> HIDE DEF u, k, F
    <3> QED
      BY <1>2, <2>6, <2>8, <2>9, OneFileData
  <2> QED
    BY <1>1, <2>10, <2>11, QuietStep
<1> QED
  BY <1>4, <1>5, <1>6

LEMMA SetVBufData ==
  ASSUME CountsInv, DataInv, NEW c \in DOMAIN p, NEW fd \in Fds, NEW mode, SetVBuf(c, fd, mode)
  PROVE  DataInv'
<1> DEFINE k == p[c]
           F == Fptrs(c)
           u == k.fds[fd]
           s == [k.file[u] EXCEPT !.mode = mode, !.index = 0]
           m == [k.file EXCEPT ![u] = s]
           l == [k EXCEPT !.file = m]
<1>1. Usable(c, fd) /\ UNCHANGED <<files, log, past>> /\ k.file[u].index = 0
      /\ p' = [p EXCEPT ![c].file[u].mode = mode, ![c].file[u].index = 0]
  BY DEF SetVBuf
<1>2. /\ u \in F /\ StreamInv(k.file[u], <<>>, FALSE, files, log, past) /\ Shape(k)
      /\ k.file = [y \in F |-> k.file[y]] /\ Aside(k, F, u, files, log, past) /\ k.at = "idle"
      /\ StreamOK(k.file[u])
  BY <1>1, UsableIs
<1>3. DOMAIN p' = DOMAIN p /\ \A d \in DOMAIN p : d # c => p'[d] = p[d]
  BY <1>1
<1>4. p'[c] = l
  <2> HIDE DEF u
  <2>1. p'[c] = [k EXCEPT !.file[u].mode = mode, !.file[u].index = 0]
    BY <1>1
  <2> HIDE DEF k
  <2> QED
    BY <1>2, <2>1 DEF Shape
<1>5. m = [y \in F |-> m[y]] /\ m[u] = s /\ \A y \in F \ {u} : m[y] = k.file[y]
  <2> HIDE DEF s
  <2> QED
    BY <1>2, Zenon
<1>6. /\ s.fid = k.file[u].fid /\ s.writes = k.file[u].writes
      /\ StreamInv(s, <<>>, FALSE, files, log, past)
  <2> DEFINE t == k.file[u]
  <2>1. StreamInv(t, <<>>, FALSE, files, log, past) /\ s = [t EXCEPT !.mode = mode, !.index = 0] /\ t.index = 0
    BY <1>1, <1>2
  <2> HIDE DEF t, s
  <2>2. /\ s.fid = t.fid /\ s.writes = t.writes /\ s.pos = t.pos /\ s.where = t.where
        /\ s.err = t.err /\ s.buf = t.buf /\ s.index = t.index /\ s.in = t.in
        /\ s = [f \in {"fid", "writes", "pos", "where", "eof", "err", "mode", "buf", "index", "in"} |-> s[f]]
    BY <2>1 DEF StreamInv, StreamOK
  <2>3. StreamOK(s)
    BY <2>1, <2>2 DEF StreamInv, StreamOK
  <2>4. StreamInv(s, <<>>, FALSE, files, log, past)
    BY <2>1, <2>2, <2>3, StreamSame
  <2> QED
    BY <2>2, <2>4 DEF t
<1> HIDE DEF m, s
<1>7. l.at = "idle" /\ l.file = m /\ l.refcnt = k.refcnt
  BY <1>2 DEF Shape
<1> HIDE DEF l
<1>8. OneFile(k, l, F, u, s)
  BY <1>5, <1>6, <1>7 DEF OneFile
<1>9. Rest(l, u) = <<>> /\ Telling(l, u) = FALSE
  BY <1>7 DEF Rest, Telling
<1>10. StreamInv(s, Rest(l, u), Telling(l, u), files, log, past)
  BY <1>6, <1>9
<1>11. Becomes(c, l)
  BY <1>3, <1>4 DEF Becomes
<1>12. ProgData(l, F, files, log, past) /\ Keeps(k, l, F, files, log)
  <2> HIDE DEF u, k, F
  <2> QED
    BY <1>2, <1>7, <1>8, <1>10, OneFileData
<1> QED
  BY <1>1, <1>11, <1>12, QuietStep

\* dup(), and dup2() to a descriptor that is not open.
LEMMA AssignData ==
  ASSUME CountsInv, DataInv, NEW c \in DOMAIN p, NEW fd \in Fds, Usable(c, fd), NEW fd2,
         p' = [p EXCEPT ![c] =
                 Return(Assign([p[c] EXCEPT !.call = [fd |-> fd2, from |-> p[c].fds[fd]]]))],
         UNCHANGED <<files, log, past>>
  PROVE  DataInv'
<1> DEFINE F == Fptrs(c)
           u == p[c].fds[fd]
           w == [fd |-> fd2, from |-> u]
           k == [p[c] EXCEPT !.call = w]
           q == Closed(k)
<1>1. u \in F /\ u # None /\ p[c].refcnt[u] # None /\ Shape(p[c]) /\ ProgInv(p[c], F) /\ p[c].at = "idle"
  BY UsableIs
<1>2. Quiet(p[c], F, files, log, past) /\ p[c].refcnt \in [F -> Nat \cup {None}]
  BY <1>1, IdleIs DEF ProgInv, Prog
<1>3. w.from = u
  OBVIOUS
<1>4. Shape(k) /\ k.call = w /\ k.file = p[c].file /\ k.refcnt = p[c].refcnt
  <2> HIDE DEF w
  <2> QED
    BY <1>1 DEF Shape
<1>5. p' = [p EXCEPT ![c] = q]
  <2>1. p' = [p EXCEPT ![c] = Return(Assign(k))]
    OBVIOUS
  <2> HIDE DEF k
  <2>2. q = Return(Assign(k))
    BY <1>1, <1>3, <1>4 DEF Closed
  <2> QED
    BY <2>1, <2>2
<1> HIDE DEF k, w
<1>6. Quiet(k, F, files, log, past)
  BY <1>2, <1>4 DEF Quiet
<1>7. /\ ProgData(q, F, files, log, past)
      /\ \A v \in F : \A f : WritesTo(q, v, f) <=> WritesTo(k, v, f)
  <2>1. k.call.from # None => k.call.from \in F /\ k.refcnt[k.call.from] # None
    BY <1>1, <1>3, <1>4
  <2>2. k.refcnt \in [F -> Nat \cup {None}]
    BY <1>2, <1>4
  <2> HIDE DEF F
  <2> QED
    BY <1>4, <1>6, <2>1, <2>2, ClosedData
<1> HIDE DEF q
<1>8. Keeps(p[c], q, F, files, log)
  BY <1>4, <1>7 DEF Keeps, WritesTo
<1>9. Becomes(c, q)
  BY <1>5 DEF Becomes
<1> QED
  BY <1>7, <1>8, <1>9, QuietStep

LEMMA OneFileWrites ==
  ASSUME NEW k, NEW l, NEW F, NEW u \in F, NEW s, OneFile(k, l, F, u, s)
  PROVE  \A v \in F : \A f : WritesTo(l, v, f) <=> WritesTo(k, v, f)
<1> SUFFICES ASSUME NEW v \in F, NEW f PROVE WritesTo(l, v, f) <=> WritesTo(k, v, f)
  OBVIOUS
<1>1. l.file[v].fid = k.file[v].fid /\ l.file[v].writes = k.file[v].writes
  BY DEF OneFile
<1> QED
  BY <1>1 DEF WritesTo, OneFile

LEMMA WriteData ==
  ASSUME CountsInv, DataInv, NEW c \in DOMAIN p, NEW fd \in Fds, NEW text \in Texts, Write(c, fd, text)
  PROVE  DataInv'
<1> DEFINE F == Fptrs(c)
           u == p[c].fds[fd]
           t == p[c].file[u]
           n == Len(text)
           w == [op |-> "write", fd |-> fd, u |-> p[c].fds[fd], from |-> None, rest |-> text]
           k == [p[c] EXCEPT !.call = w]
           s == [FileOf(k) EXCEPT !.where = @ + n]
           l == With(k, s)
           x == [y \in Places |-> IF y - t.where \in 0..n - 1 THEN text[y - t.where + 1] ELSE log[t.fid][y]]
<1>1. Usable(c, fd) /\ files' = files /\ past' = past /\ p' = [p EXCEPT ![c] = Fit(l)]
  BY DEF Write
<1>2. /\ u \in F /\ u # None /\ p[c].refcnt[u] # None
      /\ StreamInv(t, <<>>, FALSE, files, log, past) /\ StreamOK(t)
      /\ p[c].file = [v \in F |-> p[c].file[v]]
      /\ Aside(p[c], F, u, files, log, past) /\ Shape(p[c])
  BY <1>1, UsableIs
<1>3. text # <<>> /\ IsSeq(text)
  BY TextsAssumption DEF IsSeq
<1>4. w.u = u /\ w.op = "write" /\ w.rest = text /\ CallShape(w) /\ CallData(w)
  BY <1>3 DEF CallShape, CallData
<1>5. Shape(k) /\ k.call = w /\ k.file = p[c].file /\ k.refcnt = p[c].refcnt
  <2> HIDE DEF w
  <2> QED
    BY <1>2 DEF Shape
<1>6. FileOf(k) = t
  BY <1>4, <1>5 DEF FileOf
<1>7. t.writes /\ ~t.err /\ log' = [log EXCEPT ![t.fid] = x]
  <2>1. FileOf(k).writes /\ ~FileOf(k).err
    BY DEF Write
  <2>2. log' = [log EXCEPT ![FileOf(k).fid] =
                  [y \in Places |-> IF y - FileOf(k).where \in 0..n - 1
                                    THEN text[y - FileOf(k).where + 1] ELSE @[y]]]
    BY DEF Write
  <2> HIDE DEF k, t
  <2> QED
    BY <1>6, <2>1, <2>2
<1>8. s = [t EXCEPT !.where = @ + n]
  BY <1>6
<1>9. s.fid = t.fid /\ s.writes = t.writes /\ s.err = t.err
  <2> HIDE DEF t, s
  <2> QED
    BY <1>2, <1>8 DEF StreamOK
<1>10. t.fid \in FileNo /\ DOMAIN log = FileNo
  BY <1>2 DEF StreamOK, DataInv
<1>11. DOMAIN log' = FileNo /\ log'[t.fid] = x /\ \A f \in FileNo : f # t.fid => log'[f] = log[f]
  <2> HIDE DEF x, t
  <2> QED
    BY <1>7, <1>10
<1>12. StreamInv(s, text, FALSE, files, log', past)
  <2>1. IsSeq(files[t.fid].cells)
    BY <1>10 DEF DataInv, FilesOK, Table
  <2>2. log'[t.fid] = [y \in Places |-> IF y - t.where \in 0..Len(text) - 1 THEN text[y - t.where + 1]
                                       ELSE log[t.fid][y]]
    BY <1>11
  <2> HIDE DEF x, t, s
  <2>3. StreamInv([t EXCEPT !.where = @ + Len(text)], text, FALSE, files, log', past)
    BY <1>2, <1>3, <1>7, <2>1, <2>2, StreamWrites
  <2> QED
    BY <1>8, <2>3
<1>13. WritesTo(p[c], u, t.fid)
  BY <1>2, <1>7 DEF WritesTo
<1>14. Aside(p[c], F, u, files, log', past)
  <2>1. \A v \in F \ {u} : ~WritesTo(p[c], v, t.fid)
    BY <1>2, <1>10, <1>13 DEF DataInv, OneWriter
  <2>2. \A v \in F \ {u} : \A f \in FileNo :
          WritesTo(p[c], v, f) => files[f].cells = files[f].cells /\ log'[f] = log[f]
    BY <1>11, <2>1
  <2> HIDE DEF F, u, t
  <2> QED
    BY <1>2, <2>2, AsideFrame
<1>15. OneFile(k, l, F, u, s)
  <2>1. k.call.u = u /\ k.file = [v \in F |-> k.file[v]]
    BY <1>2, <1>4, <1>5
  <2> HIDE DEF k, s, F, u, t
  <2> QED
    BY <1>2, <1>5, <1>6, <1>9, <2>1, WithFile
<1>16. Shape(l) /\ l.call = w
  <2> HIDE DEF k, s
  <2> QED
    BY <1>5, WithIs
<1>17. FileOf(l) = s
  <2> HIDE DEF k, s, l
  <2> QED
    BY <1>4, <1>15, <1>16 DEF FileOf, OneFile
<1> HIDE DEF k, s, l, w, t, x
<1>18. Aside(l, F, u, files, log', past)
  <2> HIDE DEF u
  <2> QED
    BY <1>2, <1>5, <1>14, <1>15 DEF Aside, OneFile
<1>19. ProgData(Fit(l), F, files, log', past) /\ Keeps(l, Fit(l), F, files, log')
  <2>1. l.call.u = u /\ l.call.rest = text /\ l.call.op = "write"
    BY <1>4, <1>16
  <2>2. StreamInv(FileOf(l), l.call.rest, FALSE, files, log', past)
    BY <1>12, <1>17, <2>1
  <2> HIDE DEF u, F
  <2> QED
    BY <1>2, <1>4, <1>7, <1>9, <1>16, <1>17, <1>18, <2>1, <2>2, FitData
<1>20. Keeps(p[c], Fit(l), F, files, log')
  <2>1. \A v \in F : \A f : WritesTo(l, v, f) <=> WritesTo(p[c], v, f)
    <3>1. \A v \in F : \A f : WritesTo(l, v, f) <=> WritesTo(k, v, f)
      <4> HIDE DEF F, u
      <4> QED
        BY <1>2, <1>15, OneFileWrites
    <3> QED
      BY <1>5, <3>1 DEF WritesTo
  <2> QED
    BY <1>19, <2>1 DEF Keeps
<1>21. Becomes(c, Fit(l))
  BY <1>1 DEF Becomes
<1>22. FilesOK' /\ Remembered' /\ \A f \in FileNo : past[f] \subseteq past'[f]
  BY <1>1 DEF DataInv, FilesOK, Table, Remembered
<1>23. \A f \in FileNo : Same(f) \/ \E v \in F : WritesTo(p[c], v, f)
  BY <1>1, <1>2, <1>11, <1>13 DEF Same
<1>24. ProgData(Fit(l), F, files', log', past') /\ Keeps(p[c], Fit(l), F, files', log')
  BY <1>1, <1>19, <1>20
<1> HIDE DEF F, u
<1> QED
  BY <1>11, <1>21, <1>22, <1>23, <1>24, KeepsStep DEF F

LEMMA SetFileSizeIs ==
  ASSUME NEW fs, Table(fs), NEW uid, NEW f \in FileNo
  PROVE  LET a == SetFileSize(fs, uid, f, 0)
         IN  /\ Table(a.files)
             /\ \A g \in FileNo : g # f => a.files[g] = fs[g]
             /\ a.ok => a.files[f].cells = <<>>
             /\ ~a.ok => a.files = fs
<1> DEFINE a == SetFileSize(fs, uid, f, 0)
           q == SubSeq(fs[f].cells, 1, 0)
           r == [fs[f] EXCEPT !.cells = q]
           gs == [fs EXCEPT ![f] = r]
<1>1. \/ a = Answer(fs, FALSE, 0)
      \/ a = Answer(gs, TRUE, 0)
  BY DEF SetFileSize, Refuse
<1>2. DOMAIN fs = FileNo /\ IsSeq(fs[f].cells) /\ "cells" \in DOMAIN fs[f]
  BY DEF Table
<1>3. q = <<>> /\ IsSeq(q)
  <2>1. q = <<>>
    BY <1>2 DEF IsSeq
  <2> QED
    BY <2>1, EmptyIs
<1>4. "cells" \in DOMAIN r /\ r.cells = q
  BY <1>2, Zenon
<1> HIDE DEF q, r
<1>5. DOMAIN gs = FileNo /\ gs[f] = r /\ \A g \in FileNo : g # f => gs[g] = fs[g]
  BY <1>2, Zenon
<1> HIDE DEF gs
<1>6. CASE a = Answer(fs, FALSE, 0)
  <2>1. a.files = fs /\ ~a.ok
    BY <1>6 DEF Answer
  <2> QED
    BY <2>1
<1>7. CASE a = Answer(gs, TRUE, 0)
  <2>1. a.files = gs /\ a.ok
    BY <1>7 DEF Answer
  <2> HIDE DEF a
  <2>2. Table(gs)
    BY <1>2, <1>3, <1>4, <1>5 DEF Table
  <2> QED
    BY <1>3, <1>4, <1>5, <2>1, <2>2 DEF a
<1> QED
  BY <1>1, <1>6, <1>7

\* A stream that is new.
LEMMA StreamIs ==
  ASSUME NEW f \in FileNo, NEW writes, NEW mode
  PROVE  LET s == Stream(f, writes, mode)
         IN  /\ StreamOK(s) /\ s.fid = f /\ s.writes = writes /\ s.pos = 0 /\ s.where = 0
             /\ s.index = 0 /\ s.in = <<>>
<1> DEFINE s == Stream(f, writes, mode)
           b == [i \in 1..BufSize |-> ""]
<1>1. /\ s = [g \in {"fid", "writes", "pos", "where", "eof", "err", "mode", "buf", "index", "in"} |-> s[g]]
      /\ s.fid = f /\ s.writes = writes /\ s.pos = 0 /\ s.where = 0 /\ s.index = 0 /\ s.in = <<>>
      /\ s.buf = b
  BY DEF Stream
<1>2. b = [i \in 1..BufSize |-> b[i]]
  OBVIOUS
<1> HIDE DEF s, b
<1>3. StreamOK(s)
  BY <1>1, <1>2, EmptyIs, BufSizeAssumption DEF StreamOK
<1> QED
  BY <1>1, <1>3 DEF s

\* Nothing was read ahead or written; what is known of its file is there.
LEMMA NewStream ==
  ASSUME NEW f \in FileNo, NEW writes, NEW mode, NEW fs, NEW lg, NEW h,
         writes => Matches(lg[f], fs[f].cells)
  PROVE  StreamInv(Stream(f, writes, mode), <<>>, FALSE, fs, lg, h)
<1> DEFINE s == Stream(f, writes, mode)
<1>1. /\ StreamOK(s) /\ s.fid = f /\ s.writes = writes /\ s.pos = 0 /\ s.where = 0
      /\ s.index = 0 /\ s.in = <<>>
  BY StreamIs
<1> HIDE DEF s
<1>2. Ahead(s, h)
  BY <1>1, EmptyIs DEF Ahead
<1>3. StreamInv(s, <<>>, FALSE, fs, lg, h)
  BY <1>1, <1>2, CleanStream
<1> QED
  BY <1>3 DEF s

LEMMA OpenData ==
  ASSUME CountsInv, DataInv, NEW c \in DOMAIN p, NEW f \in FileNo, NEW mode \in {"r", "w", "w+"},
         Open(c, f, mode)
  PROVE  DataInv'
<1> DEFINE F == Fptrs(c)
           k == p[c]
           free == F \ Streaming(c)
           a  == IF mode = "w" THEN SetFileSize(files, Uid[c], f, 0) ELSE Answer(files, TRUE, 0)
           fd == Min(FreeFds(c))
           u  == Min(free)
           writes == mode # "r"
           s  == Stream(f, writes, "full")
           m  == [k.file EXCEPT ![u] = s]
           r  == [k.refcnt EXCEPT ![u] = 1]
           l  == [k EXCEPT !.fds[fd] = u, !.refcnt = r, !.file = m]
<1>1. /\ k.at = "idle" /\ free # {} /\ (writes => ~Writing(f)) /\ files' = a.files /\ past' = past
      /\ log' = (IF mode = "w" /\ a.ok THEN [log EXCEPT ![f] = NoLog] ELSE log)
      /\ p' = [p EXCEPT ![c] = l]
  BY DEF Open
<1>2. ProgInv(k, F) /\ Refs(F) /\ Shape(k) /\ Quiet(k, F, files, log, past)
  BY <1>1, IdleIs
<1>3. u \in F /\ k.refcnt[u] = None
  <2>1. free \in SUBSET Nat
    BY <1>2 DEF Refs
  <2>2. u \in free
    BY <1>1, <2>1, MinIs
  <2> QED
    BY <2>2 DEF Streaming
<1>4. /\ Table(a.files) /\ (\A g \in FileNo : g # f => a.files[g] = files[g])
      /\ \/ a.files = files /\ log' = log
         \/ mode = "w" /\ a.files[f].cells = <<>> /\ log' = [log EXCEPT ![f] = NoLog]
  <2>1. Table(files)
    BY DEF DataInv, FilesOK
  <2>2. CASE mode = "w"
    <3> DEFINE b == SetFileSize(files, Uid[c], f, 0)
    <3>1. a = b
      BY <2>2
    <3>2. /\ Table(b.files) /\ (\A g \in FileNo : g # f => b.files[g] = files[g])
          /\ (b.ok => b.files[f].cells = <<>>) /\ (~b.ok => b.files = files)
      BY <2>1, SetFileSizeIs
    <3> HIDE DEF b, a
    <3> QED
      BY <1>1, <2>2, <3>1, <3>2
  <2>3. CASE mode # "w"
    <3>1. a.files = files /\ log' = log
      BY <1>1, <2>3 DEF Answer
    <3> QED
      BY <2>1, <3>1
  <2> QED
    BY <2>2, <2>3
<1> HIDE DEF a, fd, u
<1>5. DOMAIN log = FileNo /\ OneWriter /\ Remembered
  BY DEF DataInv, Remembered
<1>6. DOMAIN log' = FileNo /\ \A g \in FileNo : g # f => log'[g] = log[g]
  BY <1>4, <1>5
<1>7. \A g \in FileNo : g # f => Same(g)
  BY <1>1, <1>4, <1>6 DEF Same
<1>8. Same(f) \/ (writes /\ files'[f].cells = <<>> /\ log'[f] = NoLog)
  BY <1>1, <1>4, <1>5 DEF Same
<1>9. ASSUME writes
      PROVE  /\ \A d \in DOMAIN p : \A v \in Fptrs(d) : ~WritesTo(p[d], v, f)
             /\ Matches(log'[f], files'[f].cells)
  <2>1. \A d \in DOMAIN p : \A v \in Fptrs(d) : ~WritesTo(p[d], v, f)
    BY <1>1, <1>9 DEF Writing, Streaming, WritesTo
  <2>2. Matches(log[f], files[f].cells)
    BY <2>1 DEF DataInv
  <2>3. Matches(log'[f], files'[f].cells)
    <3>1. CASE Same(f)
      BY <2>2, <3>1 DEF Same
    <3>2. CASE log'[f] = NoLog
      BY <3>2, NoLogMatches
    <3> QED
      BY <1>8, <3>1, <3>2
  <2> QED
    BY <2>1, <2>3
<1>10. FilesOK' /\ Remembered' /\ \A g \in FileNo : past[g] \subseteq past'[g]
  <2>1. FilesOK'
    BY <1>1, <1>4 DEF FilesOK
  <2>2. ASSUME NEW g \in FileNo, NEW i \in 1..Len(files'[g].cells)
        PROVE  <<i - 1, files'[g].cells[i]>> \in past'[g]
    <3>1. files'[g].cells = files[g].cells
      <4>1. CASE files'[g].cells = <<>>
        BY <2>2, <4>1, EmptyIs
      <4> QED
        BY <1>7, <1>8, <4>1 DEF Same
    <3> QED
      BY <1>1, <1>5, <2>2, <3>1 DEF Remembered
  <2> QED
    BY <1>1, <2>1, <2>2 DEF Remembered
<1>11. Quiet(k, F, files', log', past')
  <2>1. \A v \in F : \A g \in FileNo : WritesTo(k, v, g) => files'[g].cells = files[g].cells /\ log'[g] = log[g]
    <3>1. \A v \in F : \A g \in FileNo : WritesTo(k, v, g) => Same(g)
      BY <1>7, <1>8, <1>9
    <3> QED
      BY <3>1 DEF Same
  <2>2. ProgData(k, F, files, log, past)
    BY DEF DataInv
  <2>3. ProgData(k, F, files', log', past')
    <3> HIDE DEF k, F
    <3> QED
      BY <1>10, <2>1, <2>2, ProgFrame
  <2>4. \A v \in F : Rest(k, v) = <<>> /\ Telling(k, v) = FALSE
    BY <1>1 DEF Rest, Telling
  <2> HIDE DEF k, F
  <2> QED
    BY <2>3, <2>4 DEF Quiet, ProgData
<1>12. /\ StreamInv(s, <<>>, FALSE, files', log', past')
       /\ s.fid = f /\ s.writes = writes
  <2>1. StreamInv(s, <<>>, FALSE, files', log', past')
    BY <1>9, NewStream
  <2>2. s.fid = f /\ s.writes = writes
    BY StreamIs
  <2> QED
    BY <2>1, <2>2
<1>13. m = [v \in F |-> m[v]] /\ m[u] = s /\ \A v \in F \ {u} : m[v] = k.file[v]
  <2>1. k.file = [v \in F |-> k.file[v]]
    BY <1>2 DEF Quiet
  <2> HIDE DEF s
  <2> QED
    BY <1>3, <2>1, Zenon
<1>14. r[u] # None /\ \A v \in F \ {u} : r[v] = k.refcnt[v]
  <2>1. k.refcnt \in [F -> Nat \cup {None}]
    BY <1>2 DEF ProgInv, Prog
  <2> QED
    BY <1>3, <2>1, DescriptorsAssumption
<1> HIDE DEF m, r, s
<1>15. l.at = "idle" /\ l.file = m /\ l.refcnt = r
  BY <1>1, <1>2 DEF Shape
<1> HIDE DEF l
<1>16. ProgData(l, F, files', log', past')
  <2>1. Quiet(l, F, files', log', past')
    BY <1>11, <1>12, <1>13, <1>14, <1>15 DEF Quiet
  <2> HIDE DEF F
  <2> QED
    BY <1>15, <2>1, QuietData
<1>17. \A v \in F \ {u} : \A g : WritesTo(l, v, g) <=> WritesTo(k, v, g)
  BY <1>13, <1>14, <1>15 DEF WritesTo
<1>18. \A g : WritesTo(l, u, g) <=> writes /\ g = f
  BY <1>12, <1>13, <1>14, <1>15 DEF WritesTo
<1>19. \A g : ~WritesTo(k, u, g)
  BY <1>3 DEF WritesTo
<1>20. Becomes(c, l)
  BY <1>1 DEF Becomes
<1>21. OneWriter'
  <2>1. ASSUME NEW d \in DOMAIN p, NEW v \in Fptrs(d), NEW g \in FileNo, WritesTo(p'[d], v, g)
        PROVE  \/ WritesTo(p[d], v, g)
               \/ d = c /\ v = u /\ writes /\ g = f
    BY <1>17, <1>18, <1>20, <2>1 DEF Becomes
  <2>2. ASSUME NEW d \in DOMAIN p, NEW v \in Fptrs(d), writes PROVE ~WritesTo(p[d], v, f)
    BY <1>9, <2>2
  <2>3. ASSUME NEW d \in DOMAIN p, NEW e \in DOMAIN p, NEW v \in Fptrs(d), NEW x \in Fptrs(e),
               NEW g \in FileNo, WritesTo(p'[d], v, g), WritesTo(p'[e], x, g)
        PROVE  d = e /\ v = x
    <3>1. CASE WritesTo(p[d], v, g) /\ WritesTo(p[e], x, g)
      BY <1>5, <3>1 DEF OneWriter
    <3> QED
      BY <2>1, <2>2, <2>3, <3>1
  <2> QED
    BY <1>20, <2>3 DEF OneWriter, Becomes
<1>22. \A g \in FileNo : Same(g) \/ Alone(c, g)
  BY <1>7, <1>8, <1>9 DEF Alone
<1>23. ASSUME NEW g \in FileNo, \A v \in F : ~WritesTo(l, v, g)
       PROVE  \/ Matches(log'[g], files'[g].cells)
              \/ Same(g) /\ \A v \in F : ~WritesTo(p[c], v, g)
  BY <1>3, <1>7, <1>8, <1>9, <1>17, <1>18, <1>19, <1>23
<1> HIDE DEF F
<1> QED
  BY <1>6, <1>10, <1>16, <1>20, <1>21, <1>22, <1>23, DataStep DEF F

\* The standard streams.
StandardWrites(c, u, f) ==
  u - 1 \in DOMAIN Standard[c] /\ Standard[c][u - 1].writes /\ Standard[c][u - 1].fid = f

LEMMA NewProgramData ==
  ASSUME NEW c \in Clients, NEW fs, NEW lg, NEW h,
         \A u \in Fptrs(c) : \A f \in FileNo : StandardWrites(c, u, f) => Matches(lg[f], fs[f].cells)
  PROVE  /\ ProgData(NewProgram(c), Fptrs(c), fs, lg, h)
         /\ \A u \in Fptrs(c) : \A f : WritesTo(NewProgram(c), u, f) => StandardWrites(c, u, f)
<1> DEFINE l == NewProgram(c)
           F == Fptrs(c)
           T(u) == Stream(Standard[c][u - 1].fid, Standard[c][u - 1].writes, Standard[c][u - 1].mode)
           m == [u \in F |-> IF u - 1 \in DOMAIN Standard[c] THEN T(u) ELSE None]
           r == [u \in F |-> IF u - 1 \in DOMAIN Standard[c] THEN 1 ELSE None]
<1>1. l.at = "idle" /\ l.file = m /\ l.refcnt = r
  BY DEF NewProgram
<1>2. ASSUME NEW u \in F, l.refcnt[u] # None
      PROVE  /\ u - 1 \in DOMAIN Standard[c] /\ l.file[u] = T(u)
             /\ StreamInv(l.file[u], <<>>, FALSE, fs, lg, h)
             /\ l.file[u].fid = Standard[c][u - 1].fid /\ l.file[u].writes = Standard[c][u - 1].writes
  <2> DEFINE f == Standard[c][u - 1].fid
             writes == Standard[c][u - 1].writes
             mode == Standard[c][u - 1].mode
             s == Stream(f, writes, mode)
  <2>1. u - 1 \in DOMAIN Standard[c] /\ l.file[u] = s
    BY <1>1, <1>2
  <2>2. f \in FileNo
    BY <2>1, FilesAssumption
  <2>3. writes => Matches(lg[f], fs[f].cells)
    BY <2>1, <2>2 DEF StandardWrites
  <2> HIDE DEF f, writes, mode
  <2>4. StreamInv(s, <<>>, FALSE, fs, lg, h)
    BY <2>2, <2>3, NewStream
  <2>5. s.fid = f /\ s.writes = writes
    BY <2>2, StreamIs
  <2> QED
    BY <2>1, <2>4, <2>5 DEF f, writes, mode
<1>3. l.file = [u \in F |-> l.file[u]]
  BY <1>1
<1> HIDE DEF l
<1>4. Quiet(l, F, fs, lg, h)
  BY <1>2, <1>3 DEF Quiet
<1>5. ProgData(l, F, fs, lg, h)
  <2> HIDE DEF F
  <2> QED
    BY <1>1, <1>4, QuietData
<1>6. \A u \in F : \A f : WritesTo(l, u, f) => StandardWrites(c, u, f)
  BY <1>2 DEF WritesTo, StandardWrites
<1> QED
  BY <1>5, <1>6 DEF l

\* The standard streams of programs that run together write to different files.
LEMMA StandardAlone ==
  ASSUME DOMAIN p \in Groups, NEW c \in DOMAIN p, NEW d \in DOMAIN p,
         NEW u \in Fptrs(c), NEW v \in Fptrs(d), NEW f, StandardWrites(c, u, f), StandardWrites(d, v, f)
  PROVE  c = d /\ u = v
<1>1. c \in Clients /\ d \in Clients
  BY DescriptorsAssumption
<1>2. u \in Int /\ v \in Int
  BY <1>1, DescriptorsAssumption DEF Fptrs
<1>3. c = d /\ u - 1 = v - 1
  BY WritersAssumption DEF StandardWrites
<1> QED
  BY <1>2, <1>3

LEMMA ExitData ==
  ASSUME CountsInv, DataInv, NEW c \in DOMAIN p, Exit(c)
  PROVE  DataInv'
<1> DEFINE F == Fptrs(c)
           k == p[c]
           l == NewProgram(c)
           Wrote(f) == \E u \in F : WritesTo(k, u, f)
<1>1. c \in Clients /\ OneWriter /\ Remembered
  BY RefsAre DEF DataInv, Remembered
<1>2. files' = files /\ past' = past /\ p' = [p EXCEPT ![c] = l]
  BY DEF Exit
<1>3. DOMAIN log' = FileNo /\ \A f \in FileNo : log'[f] = IF Wrote(f) THEN NoLog ELSE log[f]
  <2>1. \A f : Wrote(f) <=> \E u \in Streaming(c) : k.file[u].writes /\ k.file[u].fid = f
    BY DEF WritesTo, Streaming
  <2>2. log' = [f \in FileNo |->
                  IF \E u \in Streaming(c) : k.file[u].writes /\ k.file[u].fid = f THEN NoLog ELSE log[f]]
    BY DEF Exit
  <2> HIDE DEF Wrote
  <2> QED
    BY <2>1, <2>2
<1>4. \A f \in FileNo : \A u \in F : StandardWrites(c, u, f) => Alone(c, f)
  BY DEF Exit, Alone, StandardWrites, WritesTo, Streaming
<1>5. \A f \in FileNo : Wrote(f) \/ Same(f)
  BY <1>2, <1>3 DEF Same
<1>6. \A f \in FileNo : Wrote(f) => Matches(log'[f], files'[f].cells)
  BY <1>3, NoLogMatches
<1>7. ASSUME NEW f \in FileNo, NEW u \in F, StandardWrites(c, u, f)
      PROVE  Matches(log'[f], files'[f].cells)
  <2>1. CASE ~Wrote(f)
    <3>1. \A d \in DOMAIN p : \A v \in Fptrs(d) : ~WritesTo(p[d], v, f)
      BY <1>4, <1>7, <2>1 DEF Alone
    <3>2. Matches(log[f], files[f].cells)
      BY <3>1 DEF DataInv
    <3> QED
      BY <1>5, <2>1, <3>2 DEF Same
  <2> QED
    BY <1>6, <2>1
<1>8. /\ ProgData(l, F, files', log', past')
      /\ \A u \in F : \A f : WritesTo(l, u, f) => StandardWrites(c, u, f)
  <2>1. \A u \in F : \A f \in FileNo : StandardWrites(c, u, f) => Matches(log'[f], files'[f].cells)
    BY <1>7
  <2> QED
    BY <1>1, <2>1, NewProgramData
<1>9. Becomes(c, l)
  BY <1>2 DEF Becomes
<1> HIDE DEF l
<1>10. FilesOK' /\ Remembered' /\ \A f \in FileNo : past[f] \subseteq past'[f]
  BY <1>1, <1>2 DEF DataInv, FilesOK, Table, Remembered
<1>11. OneWriter'
  <2>1. ASSUME NEW d \in DOMAIN p, NEW v \in Fptrs(d), NEW f \in FileNo, WritesTo(p'[d], v, f)
        PROVE  IF d = c THEN StandardWrites(c, v, f) ELSE WritesTo(p[d], v, f)
    BY <1>8, <1>9, <2>1 DEF Becomes
  <2>2. ASSUME NEW d \in DOMAIN p, NEW v \in Fptrs(d), NEW f \in FileNo, NEW u \in F,
               d # c, WritesTo(p'[d], v, f)
        PROVE  ~StandardWrites(c, u, f)
    BY <1>4, <2>1, <2>2 DEF Alone
  <2>3. ASSUME NEW u \in F, NEW v \in F, NEW f \in FileNo,
               StandardWrites(c, u, f), StandardWrites(c, v, f)
        PROVE  u = v
    BY <2>3, StandardAlone DEF DataInv
  <2>4. ASSUME NEW d \in DOMAIN p, NEW e \in DOMAIN p, NEW v \in Fptrs(d), NEW x \in Fptrs(e),
               NEW f \in FileNo, WritesTo(p'[d], v, f), WritesTo(p'[e], x, f)
        PROVE  d = e /\ v = x
    <3>1. CASE d # c /\ e # c
      BY <1>1, <2>1, <2>4, <3>1 DEF OneWriter
    <3>2. CASE d = c /\ e = c
      BY <2>1, <2>3, <2>4, <3>2
    <3>3. CASE d = c /\ e # c
      BY <2>1, <2>2, <2>4, <3>3
    <3>4. CASE d # c /\ e = c
      BY <2>1, <2>2, <2>4, <3>4
    <3> QED
      BY <3>1, <3>2, <3>3, <3>4
  <2> QED
    BY <1>9, <2>4 DEF OneWriter, Becomes
<1>12. \A f \in FileNo : Same(f) \/ Alone(c, f)
  <2>1. \A f \in FileNo : Wrote(f) => Alone(c, f)
    BY <1>1 DEF OneWriter, Alone
  <2> QED
    BY <1>5, <2>1
<1>13. ASSUME NEW f \in FileNo, \A u \in F : ~WritesTo(l, u, f)
       PROVE  \/ Matches(log'[f], files'[f].cells)
              \/ Same(f) /\ \A u \in F : ~WritesTo(p[c], u, f)
  BY <1>5, <1>6
<1> HIDE DEF F
<1> QED
  BY <1>3, <1>8, <1>9, <1>10, <1>11, <1>12, <1>13, DataStep DEF F

LEMMA CallsData ==
  ASSUME CountsInv, DataInv, NEW c \in DOMAIN p, NEW fd \in Fds,
         Dup(c, fd) \/ Close(c, fd) \/ FlushSync(c, fd)
  PROVE  DataInv'
<1>1. UNCHANGED <<files, log, past>> /\ Usable(c, fd)
  BY DEF Dup, Close, FlushSync
<1>2. CASE Dup(c, fd)
  BY <1>1, <1>2, AssignData DEF Dup
<1>3. ASSUME NEW op \in {"close", "sync"}, Calling(c, Of(c, fd, op), "flush") PROVE DataInv'
  <2> DEFINE w == Of(c, fd, op)
  <2>1. w.u = p[c].fds[fd] /\ w.op \in {"close", "sync"}
    BY DEF Of
  <2> HIDE DEF w
  <2>2. Calling(c, w, "flush")
    BY <1>3 DEF w
  <2> QED
    BY <1>1, <2>1, <2>2, CloseCallData
<1> QED
  BY <1>2, <1>3 DEF Close, FlushSync

LEMMA Dup2Data ==
  ASSUME CountsInv, DataInv, NEW c \in DOMAIN p, NEW fd \in Fds, NEW fd2 \in Fds, Dup2(c, fd, fd2)
  PROVE  DataInv'
<1>1. UNCHANGED <<files, log, past>> /\ Usable(c, fd)
  BY DEF Dup2
<1>2. CASE p[c].fds[fd2] = None
  <2>1. p' = [p EXCEPT ![c] =
                Return(Assign([p[c] EXCEPT !.call = [fd |-> fd2, from |-> p[c].fds[fd]]]))]
    BY <1>2 DEF Dup2
  <2> QED
    BY <1>1, <2>1, AssignData
<1>3. CASE p[c].fds[fd2] # None
  <2> DEFINE w == [Of(c, fd2, "close") EXCEPT !.from = p[c].fds[fd]]
  <2>1. Calling(c, w, "flush")
    BY <1>3 DEF Dup2
  <2>2. Usable(c, fd2)
    BY <1>1, <1>3 DEF Usable
  <2>3. w.u = p[c].fds[fd2] /\ w.op \in {"close", "sync"}
    BY DEF Of
  <2> HIDE DEF w
  <2> QED
    BY <1>1, <2>1, <2>2, <2>3, CloseCallData
<1> QED
  BY <1>2, <1>3

LEMMA DataInit == Init => DataInv
<1> SUFFICES ASSUME Init PROVE DataInv
  OBVIOUS
<1>1. PICK group \in Groups : p = [c \in group |-> NewProgram(c)]
  BY DEF Init
<1>2. files = InitFiles /\ log = [f \in FileNo |-> NoLog] /\ past = Seen([f \in FileNo |-> {}], files)
  BY DEF Init
<1>3. DOMAIN p = group /\ group \subseteq Clients /\ \A c \in group : p[c] = NewProgram(c)
  BY <1>1, DescriptorsAssumption
<1>4. FilesOK
  BY <1>2, FilesAssumption DEF FilesOK, Table, IsSeq
<1>5. \A f \in FileNo : \A i \in 1..Len(files[f].cells) : <<i - 1, files[f].cells[i]>> \in past[f]
  <2> SUFFICES ASSUME NEW f \in FileNo, NEW i \in 1..Len(files[f].cells)
               PROVE  <<i - 1, files[f].cells[i]>> \in past[f]
    OBVIOUS
  <2>1. i \in DOMAIN files[f].cells
    BY <1>4, SeqIs DEF FilesOK, Table
  <2> QED
    BY <1>2, <2>1 DEF Seen
<1>6. \A f \in FileNo : Matches(log[f], files[f].cells)
  BY <1>2, NoLogMatches
<1>7. ASSUME NEW c \in DOMAIN p
      PROVE  /\ ProgData(p[c], Fptrs(c), files, log, past)
             /\ \A u \in Fptrs(c) : \A f : WritesTo(p[c], u, f) => StandardWrites(c, u, f)
  BY <1>3, <1>6, NewProgramData
<1>8. DOMAIN p \in Groups
  BY <1>1, <1>3
<1>9. OneWriter
  <2> SUFFICES ASSUME NEW c \in DOMAIN p, NEW d \in DOMAIN p, NEW u \in Fptrs(c), NEW v \in Fptrs(d),
                      NEW f \in FileNo, WritesTo(p[c], u, f), WritesTo(p[d], v, f)
               PROVE  c = d /\ u = v
    BY DEF OneWriter
  <2> QED
    BY <1>7, <1>8, StandardAlone
<1> QED
  BY <1>2, <1>4, <1>5, <1>6, <1>7, <1>8, <1>9 DEF DataInv

LEMMA DataNext == CountsInv /\ DataInv /\ [Next]_vars => DataInv'
<1> SUFFICES ASSUME CountsInv, DataInv, [Next]_vars PROVE DataInv'
  OBVIOUS
<1>1. CASE UNCHANGED vars
  <2>1. files' = files /\ p' = p /\ log' = log /\ past' = past
    BY <1>1 DEF vars
  <2>2. FilesOK' /\ OneWriter'
    BY <2>1 DEF DataInv, FilesOK, OneWriter
  <2> QED
    BY <2>1, <2>2 DEF DataInv
<1>2. ASSUME NEW c \in DOMAIN p, Steps(c) \/ Call(c) PROVE DataInv'
  <2>1. CASE Steps(c)
    BY <2>1, FlushData, FillData, StatEndData DEF Steps
  <2>2. CASE \E o \in Opens[c] : Open(c, o.fid, o.mode)
    <3>1. c \in Clients
      BY RefsAre
    <3>2. PICK o \in Opens[c] : Open(c, o.fid, o.mode)
      BY <2>2
    <3>3. o.fid \in FileNo /\ o.mode \in {"r", "w", "w+"}
      BY <3>1, FilesAssumption
    <3> QED
      BY <3>2, <3>3, OpenData
  <2>3. CASE \E fd \in Fds, op \in Ops[c] \cap {"read", "gets"}, i \in Items :
               (op = "gets" => i.size = 1) /\ Read(c, fd, op, i)
    BY <2>3, ReadData
  <2>4. CASE \E fd \in Fds, t \in Texts : Write(c, fd, t)
    BY <2>4, WriteData
  <2>5. CASE \E fd \in Fds, s \in Seeks : Seek(c, fd, s.whence, s.x)
    <3>1. \A s \in Seeks : s.x \in Nat
      BY SeeksAssumption
    <3> QED
      BY <2>5, <3>1, SeekData
  <2>6. CASE \E fd \in Fds : Dup(c, fd) \/ Close(c, fd) \/ FlushSync(c, fd)
    BY <2>6, CallsData
  <2>7. CASE \E fd \in Fds, fd2 \in Fds : Dup2(c, fd, fd2)
    BY <2>7, Dup2Data
  <2>8. CASE \E fd \in Fds, m \in Modes : SetVBuf(c, fd, m)
    BY <2>8, SetVBufData
  <2>9. CASE Exit(c)
    BY <2>9, ExitData
  <2> QED
    BY <1>2, <2>1, <2>2, <2>3, <2>4, <2>5, <2>6, <2>7, <2>8, <2>9 DEF Call
<1> QED
  BY <1>1, <1>2 DEF Next

\* A stream of a program, as the program has it.
LEMMA StreamKnown ==
  ASSUME DataInv, NEW c \in DOMAIN p, NEW u \in Streaming(c)
  PROVE  StreamInv(p[c].file[u], Rest(p[c], u), Telling(p[c], u), files, log, past)
<1>1. u \in Fptrs(c) /\ p[c].refcnt[u] # None
  BY DEF Streaming
<1> QED
  BY <1>1 DEF DataInv, ProgData

\* What programs wrote is in the file or on its way there, whatever they read, moved, duplicated or
\* closed in between and whatever other programs did between two requests (fwrite(), fflush(),
\* fseek(), fclose() and their callers in lib/unistd.c).
THEOREM LogIsFileCorrect == Spec => []LogIsFile
<1>1. DataInv => LogIsFile
  <2> SUFFICES ASSUME DataInv, NEW c \in DOMAIN p, NEW u \in Streaming(c),
                      p[c].file[u].writes, ~p[c].file[u].err,
                      NEW x \in Places, log[p[c].file[u].fid][x] # None
               PROVE  LET s    == p[c].file[u]
                          text == Put(files[s.fid].cells, s.pos, Pending(c, u))
                      IN  x < Len(text) /\ text[x + 1] = log[s.fid][x]
    BY DEF LogIsFile
  <2> DEFINE s     == p[c].file[u]
             rest  == Rest(p[c], u)
             cells == files[s.fid].cells
             known == log[s.fid]
             q     == Out(s) \o rest
             text  == Put(cells, s.pos, q)
  <2>1. Pending(c, u) = q
    BY DEF Pending, Rest
  <2>2. StreamInv(s, rest, Telling(p[c], u), files, log, past)
    BY StreamKnown
  <2> HIDE DEF rest
  <2>3. StreamOK(s) /\ IsSeq(rest) /\ Matches(known, Written(cells, s.pos, q))
    BY <2>2 DEF StreamInv
  <2>4. IsSeq(cells) /\ s.pos \in Nat
    BY <2>3 DEF StreamOK, DataInv, FilesOK, Table
  <2>5. IsSeq(q)
    BY <2>3, OutIs, JoinIs
  <2>6. x \in Nat /\ known[x] # None
    BY DEF Places
  <2> HIDE DEF q, known, cells, s
  <2>7. x < Len(text) /\ text[x + 1] = known[x]
    <3>1. CASE q # <<>>
      <4>1. Written(cells, s.pos, q) = text
        BY <3>1 DEF Written
      <4> HIDE DEF text
      <4> QED
        BY <2>3, <2>6, <4>1 DEF Matches
    <3>2. CASE q = <<>>
      <4>1. x < Len(cells) /\ cells[x + 1] = known[x]
        BY <2>3, <2>6, <3>2 DEF Matches, Written
      <4>2. Len(q) = 0 /\ Len(cells) \in Nat
        BY <2>4, <3>2, EmptyIs, SeqIs
      <4>3. /\ Len(text) = IF Len(cells) <= s.pos + Len(q) THEN s.pos + Len(q) ELSE Len(cells)
            /\ \A i \in 1..Len(text) :
                 text[i] = IF i - s.pos \in 1..Len(q) THEN q[i - s.pos]
                           ELSE IF i <= Len(cells) THEN cells[i] ELSE Garbage
        BY <2>4, <2>5, PutIs
      <4> HIDE DEF text
      <4>4. x < Len(text)
        BY <2>4, <2>6, <4>1, <4>2, <4>3
      <4>5. text[x + 1] = cells[x + 1]
        BY <2>4, <2>6, <4>1, <4>2, <4>3
      <4> QED
        BY <4>1, <4>4, <4>5
    <3> QED
      BY <3>1, <3>2
  <2> QED
    BY <2>1, <2>7 DEF s, cells, known
<1> QED
  BY <1>1, CountsInit, CountsNext, DataInit, DataNext, PTL DEF Spec

\* What a program that only reads has read ahead of a file was in the file at that offset, when it
\* reads one item at a time or items of one character, as read() does (unistd.c:188): fread() moves
\* too much to the front of its buffer otherwise (stdio.c:281-285).
THEOREM InputIsFileCorrect == ASSUME Simple PROVE Spec => []InputIsFile
<1>1. DataInv => InputIsFile
  <2> SUFFICES ASSUME DataInv, NEW c \in DOMAIN p, NEW u \in Streaming(c), ~p[c].file[u].writes,
                      NEW i \in DOMAIN p[c].file[u].in
               PROVE  LET s == p[c].file[u] IN <<s.pos + i - 1, s.in[i]>> \in past[s.fid]
    BY DEF InputIsFile
  <2> DEFINE s == p[c].file[u]
  <2>1. StreamInv(s, Rest(p[c], u), Telling(p[c], u), files, log, past)
    BY StreamKnown
  <2>2. StreamOK(s) /\ Ahead(s, past)
    BY <2>1 DEF StreamInv
  <2>3. i \in 1..Len(s.in)
    BY <2>2, SeqIs DEF StreamOK
  <2> HIDE DEF s
  <2>4. <<s.pos + i - 1, s.in[i]>> \in past[s.fid]
    BY <2>2, <2>3 DEF Ahead
  <2> QED
    BY <2>4 DEF s
<1> QED
  BY <1>1, CountsInit, CountsNext, DataInit, DataNext, PTL DEF Spec
=============================================================================
