--------------------------- MODULE TtyServerProofs ---------------------------
(* The terminal server: its types, its requests and the stream of what is  *)
(* typed.                                                                  *)
EXTENDS TtyServer, WellFoundedInduction, FiniteSetTheorems, TLAPS, SequenceTheorems

-----------------------------------------------------------------------------
(* Sets of natural numbers.                                                *)

\* A nonempty set of natural numbers has a least element: a loop that looks for
\* the first of something finds it, if it is there.
LEMMA Least ==
  ASSUME NEW S \in SUBSET Nat, S # {}
  PROVE  \E x \in S : \A y \in S : x <= y
<1>1. PICK x \in S : \A y \in S : ~(<<y, x>> \in OpToRel(<, Nat))
  BY NatLessThanWellFounded, WFMin, Zenon
<1>2. \A y \in S : ~(y < x)
  BY <1>1 DEF OpToRel
<1> QED
  BY <1>2

\* Induction, for a set: what holds at 0 and goes from each number to the next holds of
\* all.  (The library's induction theorem is about an operator.)
LEMMA SetInduction ==
  ASSUME NEW S, 0 \in S, \A n \in Nat : n \in S => n + 1 \in S
  PROVE  \A n \in Nat : n \in S
<1> SUFFICES ASSUME \E n \in Nat : n \notin S PROVE FALSE
  OBVIOUS
<1> DEFINE T == {n \in Nat : n \notin S}
<1>1. PICK x \in T : \A y \in T : x <= y
  BY Least
<1>2. x # 0 /\ x - 1 \in Nat /\ x - 1 \notin T
  BY <1>1
<1>3. (x - 1) + 1 \in S
  BY <1>2
<1> QED
  BY <1>1, <1>3

-----------------------------------------------------------------------------
(* Sequences of sequences.                                                 *)

\* f[i] is the concatenation of the first i elements of q.
Joined(f, E, q, n) ==
  /\ f \in [1..n -> Seq(E)]
  /\ \A i \in 1..n : f[i] = IF i = 1 THEN q[i] ELSE f[i - 1] \o q[i]

\* They exist.
LEMMA PrefixesExist ==
  ASSUME NEW E, NEW q \in Seq(Seq(E))
  PROVE  \A n \in 0..Len(q) : \E f : Joined(f, E, q, n)
<1> DEFINE S == {n \in Nat : n <= Len(q) => \E f : Joined(f, E, q, n)}
<1>1. 0 \in S
  <2> DEFINE f == [i \in 1..0 |-> q[i]]
  <2>1. 1..0 = {}
    OBVIOUS
  <2>2. Joined(f, E, q, 0)
    BY <2>1 DEF Joined
  <2> QED
    BY <2>2
<1>2. ASSUME NEW n \in Nat, n \in S PROVE n + 1 \in S
  <2> SUFFICES ASSUME n + 1 <= Len(q) PROVE \E f : Joined(f, E, q, n + 1)
    OBVIOUS
  <2>1. PICK f : Joined(f, E, q, n)
    BY <1>2
  <2> DEFINE x == IF n = 0 THEN q[1] ELSE f[n] \o q[n + 1]
             g == [i \in 1..(n + 1) |-> IF i <= n THEN f[i] ELSE x]
  <2>2. f \in [1..n -> Seq(E)] /\ \A i \in 1..n : f[i] = IF i = 1 THEN q[i] ELSE f[i - 1] \o q[i]
    BY <2>1 DEF Joined
  <2>3. x \in Seq(E)
    BY <2>2
  <2>4. g \in [1..(n + 1) -> Seq(E)] /\ (\A i \in 1..n : g[i] = f[i]) /\ g[n + 1] = x
    <3> HIDE DEF x
    <3>1. \A i \in 1..(n + 1) : i <= n => i \in 1..n
      OBVIOUS
    <3> QED
      BY <2>2, <2>3, <3>1
  <2> HIDE DEF g
  <2>5. ASSUME NEW i \in 1..n PROVE g[i] = IF i = 1 THEN q[i] ELSE g[i - 1] \o q[i]
    <3>1. i = 1 \/ i - 1 \in 1..n
      OBVIOUS
    <3> QED
      BY <2>2, <2>4, <3>1
  <2>6. g[n + 1] = IF n + 1 = 1 THEN q[n + 1] ELSE g[(n + 1) - 1] \o q[n + 1]
    <3>1. n = 0 \/ n \in 1..n
      OBVIOUS
    <3>2. (n + 1) - 1 = n /\ (n + 1 = 1 <=> n = 0)
      OBVIOUS
    <3> QED
      BY <2>4, <3>1, <3>2
  <2>7. \A i \in 1..(n + 1) : i \in 1..n \/ i = n + 1
    OBVIOUS
  <2>8. Joined(g, E, q, n + 1)
    BY <2>4, <2>5, <2>6, <2>7 DEF Joined
  <2> QED
    BY <2>8
<1> HIDE DEF S
<1>3. \A n \in Nat : n \in S
  BY <1>1, <1>2, SetInduction
<1> QED
  BY <1>3 DEF S

\* They are those of FlattenSeq, and there are no others.
LEMMA FlattenIs ==
  ASSUME NEW E, NEW q \in Seq(Seq(E)), NEW f, Joined(f, E, q, Len(q)), q # <<>>
  PROVE  FlattenSeq(q) = f[Len(q)] /\ f[Len(q)] \in Seq(E)
<1> DEFINE n == Len(q)
           F(h) == h = [i \in 1..n |-> IF i = 1 THEN q[i] ELSE h[i - 1] \o q[i]]
           c == CHOOSE h : F(h)
<1>1. n \in Nat /\ n > 0
  OBVIOUS
<1>2. f \in [1..n -> Seq(E)] /\ \A i \in 1..n : f[i] = IF i = 1 THEN q[i] ELSE f[i - 1] \o q[i]
  BY DEF Joined
<1>3. F(f)
  <2> DEFINE g == [i \in 1..n |-> IF i = 1 THEN q[i] ELSE f[i - 1] \o q[i]]
  <2>1. \A i \in 1..n : f[i] = g[i]
    BY <1>2
  <2>2. f = [i \in 1..n |-> f[i]] /\ g = [i \in 1..n |-> g[i]]
    BY <1>2
  <2> HIDE DEF g
  <2>3. f = g
    BY <2>1, <2>2
  <2> QED
    BY <2>3 DEF g
<1>4. F(c)
  <2> HIDE DEF F
  <2> QED
    BY <1>3
<1>5. FlattenSeq(q) = c[n]
  <2>1. Len(q) # 0
    BY <1>1
  <2>2. FlattenSeq(q) = IF Len(q) = 0 THEN q
                        ELSE LET h[i \in 1..Len(q)] == IF i = 1 THEN q[i] ELSE h[i - 1] \o q[i]
                             IN  h[Len(q)]
    BY Zenon DEF FlattenSeq
  <2> QED
    BY <2>1, <2>2, Zenon
<1> HIDE DEF c
<1>6. \A i \in 1..n : c[i] = IF i = 1 THEN q[i] ELSE c[i - 1] \o q[i]
  <2> DEFINE g == [i \in 1..n |-> IF i = 1 THEN q[i] ELSE c[i - 1] \o q[i]]
  <2>1. \A i \in 1..n : g[i] = IF i = 1 THEN q[i] ELSE c[i - 1] \o q[i]
    OBVIOUS
  <2>2. c = g
    BY <1>4, Zenon
  <2> HIDE DEF g
  <2> QED
    BY <2>1, <2>2
<1> DEFINE S == {i \in Nat : i \in 1..n => c[i] = f[i]}
<1>7. 0 \in S
  OBVIOUS
<1>8. ASSUME NEW i \in Nat, i \in S PROVE i + 1 \in S
  <2> SUFFICES ASSUME i + 1 \in 1..n PROVE c[i + 1] = f[i + 1]
    OBVIOUS
  <2>1. (i + 1) - 1 = i /\ (i + 1 = 1 <=> i = 0) /\ (i = 0 \/ i \in 1..n)
    OBVIOUS
  <2>2. /\ c[i + 1] = IF i + 1 = 1 THEN q[i + 1] ELSE c[(i + 1) - 1] \o q[i + 1]
        /\ f[i + 1] = IF i + 1 = 1 THEN q[i + 1] ELSE f[(i + 1) - 1] \o q[i + 1]
    BY <1>2, <1>6
  <2>3. i = 0 \/ c[i] = f[i]
    BY <1>8, <2>1
  <2> QED
    BY <2>1, <2>2, <2>3
<1> HIDE DEF S
<1>9. \A i \in Nat : i \in S
  BY <1>7, <1>8, SetInduction
<1>10. c[n] = f[n]
  BY <1>1, <1>9 DEF S
<1> QED
  BY <1>1, <1>2, <1>5, <1>10

\* The prefixes of a longer sequence are the same.
LEMMA PrefixesOf ==
  ASSUME NEW E, NEW q \in Seq(Seq(E)), NEW r \in Seq(Seq(E)), NEW f,
         Joined(f, E, q, Len(q)), Len(r) <= Len(q), \A i \in 1..Len(r) : r[i] = q[i]
  PROVE  r # <<>> => FlattenSeq(r) = f[Len(r)]
<1> SUFFICES ASSUME r # <<>> PROVE FlattenSeq(r) = f[Len(r)]
  OBVIOUS
<1> DEFINE g == [i \in 1..Len(r) |-> f[i]]
<1>1. /\ f \in [1..Len(q) -> Seq(E)]
      /\ \A i \in 1..Len(q) : f[i] = IF i = 1 THEN q[i] ELSE f[i - 1] \o q[i]
  BY DEF Joined
<1>2. \A i \in 1..Len(r) : i \in 1..Len(q) /\ g[i] = f[i]
  OBVIOUS
<1>3. g \in [1..Len(r) -> Seq(E)]
  BY <1>1, <1>2
<1>4. ASSUME NEW i \in 1..Len(r) PROVE g[i] = IF i = 1 THEN r[i] ELSE g[i - 1] \o r[i]
  <2>1. f[i] = IF i = 1 THEN q[i] ELSE f[i - 1] \o q[i]
    BY <1>1, <1>2
  <2>2. i = 1 \/ i - 1 \in 1..Len(r)
    OBVIOUS
  <2> HIDE DEF g
  <2> QED
    BY <1>2, <2>1, <2>2
<1> HIDE DEF g
<1>5. Joined(g, E, r, Len(r))
  BY <1>3, <1>4 DEF Joined
<1>6. FlattenSeq(r) = g[Len(r)]
  BY <1>5, FlattenIs
<1> QED
  BY <1>2, <1>6

LEMMA FlattenNone == FlattenSeq(<<>>) = <<>>
  BY DEF FlattenSeq

LEMMA FlattenAppend ==
  ASSUME NEW E, NEW q \in Seq(Seq(E)), NEW x \in Seq(E)
  PROVE  FlattenSeq(q) \in Seq(E) /\ FlattenSeq(Append(q, x)) = FlattenSeq(q) \o x
<1> DEFINE r == Append(q, x)
           n == Len(q)
<1>1. /\ r \in Seq(Seq(E)) /\ r # <<>> /\ Len(r) = n + 1 /\ n \in Nat
      /\ \A i \in 1..n : q[i] = r[i]
      /\ r[n + 1] = x
  BY AppendProperties
<1> HIDE DEF r
<1>2. PICK f : Joined(f, E, r, n + 1)
  BY <1>1, PrefixesExist
<1>3. FlattenSeq(r) = f[n + 1]
  BY <1>1, <1>2, FlattenIs
<1>4. /\ \A i \in 1..(n + 1) : f[i] \in Seq(E)
      /\ f[n + 1] = IF n + 1 = 1 THEN r[n + 1] ELSE f[(n + 1) - 1] \o r[n + 1]
  <2>1. /\ f \in [1..(n + 1) -> Seq(E)]
        /\ \A i \in 1..(n + 1) : f[i] = IF i = 1 THEN r[i] ELSE f[i - 1] \o r[i]
    BY <1>2 DEF Joined
  <2>2. n + 1 \in 1..(n + 1)
    BY <1>1
  <2> HIDE DEF n
  <2> QED
    BY <2>1, <2>2
<1>5. CASE q = <<>>
  <2>1. FlattenSeq(q) = <<>> /\ n = 0
    BY <1>5, FlattenNone
  <2>2. FlattenSeq(r) = x
    BY <1>1, <1>3, <1>4, <2>1
  <2> QED
    BY <2>1, <2>2 DEF r
<1>6. CASE q # <<>>
  <2>1. FlattenSeq(q) = f[n]
    <3>1. /\ Joined(f, E, r, Len(r)) /\ Len(q) <= Len(r)
          /\ \A i \in 1..Len(q) : q[i] = r[i]
      BY <1>1, <1>2
    <3> QED
      BY <1>1, <1>6, <3>1, PrefixesOf
  <2>2. n \in 1..(n + 1) /\ (n + 1) - 1 = n /\ n + 1 # 1
    BY <1>6
  <2> HIDE DEF n
  <2> QED
    BY <1>1, <1>3, <1>4, <2>1, <2>2 DEF r
<1> QED
  BY <1>5, <1>6

LEMMA FlattenFirst ==
  ASSUME NEW E, NEW q \in Seq(Seq(E)), NEW x \in Seq(E)
  PROVE  FlattenSeq(<<x>> \o q) = x \o FlattenSeq(q)
<1> DEFINE r == <<x>> \o q
           n == Len(q)
<1>1. /\ r \in Seq(Seq(E)) /\ r # <<>> /\ Len(r) = n + 1 /\ n \in Nat
      /\ r[1] = x /\ \A i \in 1..n : r[i + 1] = q[i]
  OBVIOUS
<1> HIDE DEF r
<1>2. PICK f : Joined(f, E, r, n + 1)
  BY <1>1, PrefixesExist
<1>3. FlattenSeq(r) = f[n + 1]
  BY <1>1, <1>2, FlattenIs
<1>4. \A i \in 1..(n + 1) : f[i] = IF i = 1 THEN r[i] ELSE f[i - 1] \o r[i]
  BY <1>2 DEF Joined
<1>5. CASE q = <<>>
  <2>1. FlattenSeq(q) = <<>> /\ n = 0
    BY <1>5, FlattenNone
  <2>2. FlattenSeq(r) = x
    BY <1>1, <1>3, <1>4, <2>1
  <2> QED
    BY <2>1, <2>2 DEF r
<1>6. CASE q # <<>>
  <2>1. PICK g : Joined(g, E, q, n)
    <3>1. n \in 0..Len(q)
      BY <1>1
    <3>2. \A m \in 0..Len(q) : \E g : Joined(g, E, q, m)
      BY PrefixesExist
    <3> QED
      BY <3>1, <3>2
  <2>2. FlattenSeq(q) = g[n] /\ n \in 1..n
    BY <1>1, <1>6, <2>1, FlattenIs
  <2>3. /\ g \in [1..n -> Seq(E)]
        /\ \A i \in 1..n : g[i] = IF i = 1 THEN q[i] ELSE g[i - 1] \o q[i]
    BY <2>1 DEF Joined
  <2> DEFINE S == {i \in Nat : i \in 1..n => f[i + 1] = x \o g[i]}
  <2>4. 0 \in S
    OBVIOUS
  <2>5. ASSUME NEW i \in Nat, i \in S PROVE i + 1 \in S
    <3> SUFFICES ASSUME i + 1 \in 1..n PROVE f[(i + 1) + 1] = x \o g[i + 1]
      OBVIOUS
    <3> DEFINE j == i + 1
    <3>1. /\ j \in 1..n /\ j + 1 \in 1..(n + 1) /\ (j + 1) - 1 = j /\ j + 1 # 1 /\ j - 1 = i
          /\ i \in Nat /\ (i = 0 <=> j = 1) /\ (i # 0 => i \in 1..n)
      OBVIOUS
    <3>2. f[j + 1] = f[j] \o q[j] /\ q[j] \in Seq(E)
      <4>1. f[j + 1] = f[(j + 1) - 1] \o r[j + 1]
        BY <1>4, <3>1
      <4>2. q[j] \in Seq(E)
        BY <3>1, ElementOfSeq
      <4> QED
        BY <1>1, <3>1, <4>1, <4>2
    <3>3. g[j] = IF j = 1 THEN q[j] ELSE g[i] \o q[j]
      BY <2>3, <3>1
    <3>4. CASE i = 0
      <4>1. f[1] = x /\ j = 1
        BY <1>1, <1>4, <3>4
      <4> QED
        BY <3>2, <3>3, <4>1
    <3>5. CASE i # 0
      <4>1. f[j] = x \o g[i] /\ g[i] \in Seq(E) /\ j # 1
        BY <2>3, <2>5, <3>1, <3>5
      <4>2. f[j + 1] = (x \o g[i]) \o q[j] /\ g[j] = g[i] \o q[j]
        BY <3>2, <3>3, <4>1
      <4> HIDE DEF j
      <4>3. (x \o g[i]) \o q[j] = x \o (g[i] \o q[j])
        <5> DEFINE u == g[i]
                   v == q[j]
        <5>1. u \in Seq(E) /\ v \in Seq(E)
          BY <3>2, <4>1
        <5> HIDE DEF u, v
        <5>2. (x \o u) \o v = x \o (u \o v)
          BY <5>1, ConcatAssociative
        <5> QED
          BY <5>2 DEF u, v
      <4>4. f[j + 1] = x \o g[j]
        BY <4>2, <4>3
      <4> QED
        BY <4>4 DEF j
    <3> QED
      BY <3>4, <3>5
  <2> HIDE DEF S
  <2>6. \A i \in Nat : i \in S
    BY <2>4, <2>5, SetInduction
  <2>7. f[n + 1] = x \o g[n]
    BY <1>1, <2>2, <2>6 DEF S
  <2> QED
    BY <1>3, <2>2, <2>7 DEF r
<1> QED
  BY <1>5, <1>6

-----------------------------------------------------------------------------
(* Types.                                                                  *)

\* The parts of a nonempty queue.
LEMMA HeadTail ==
  ASSUME NEW E, NEW q \in Seq(E), q # <<>>
  PROVE  /\ Head(q) \in E /\ Tail(q) \in Seq(E) /\ q = <<Head(q)>> \o Tail(q)
         /\ Head(q) = q[1] /\ Len(Tail(q)) = Len(q) - 1 /\ Len(q) \in Nat \ {0}
         /\ \A i \in 1..Len(Tail(q)) : Tail(q)[i] = q[i + 1] /\ i + 1 \in 1..Len(q)
  OBVIOUS

\* How tty_handle() cuts the first line.
LEMMA Cut ==
  ASSUME NEW line \in Seq(Char), NEW size \in Nat
  PROVE  LET n    == IF Len(line) > size THEN size ELSE Len(line)
             rest == SubSeq(line, n + 1, Len(line))
             part == SubSeq(line, 1, n)
         IN  /\ part \in Seq(Char) /\ rest \in Seq(Char)
             /\ line = part \o rest
             /\ n = Len(line) => part = line
             /\ n < Len(line) => rest # <<>>
<1> DEFINE n    == IF Len(line) > size THEN size ELSE Len(line)
           rest == SubSeq(line, n + 1, Len(line))
           part == SubSeq(line, 1, n)
<1>1. n \in 0..Len(line) /\ Len(line) \in Nat
  OBVIOUS
<1> HIDE DEF n
<1>2. /\ part \in Seq(Char) /\ Len(part) = n
      /\ \A i \in 1..n : part[i] = line[i]
  BY <1>1
<1>3. /\ rest \in Seq(Char) /\ Len(rest) = Len(line) - n
      /\ \A i \in 1..(Len(line) - n) : rest[i] = line[n + i]
  BY <1>1
<1> HIDE DEF rest, part
<1>4. part \o rest \in Seq(Char) /\ Len(part \o rest) = Len(line)
  BY <1>1, <1>2, <1>3
<1>5. \A i \in 1..Len(line) : (part \o rest)[i] = line[i]
  <2> SUFFICES ASSUME NEW i \in 1..Len(line) PROVE (part \o rest)[i] = line[i]
    OBVIOUS
  <2>1. CASE i <= n
    BY <1>1, <1>2, <1>3, <2>1
  <2>2. CASE i > n
    <3>1. (part \o rest)[i] = rest[i - n] /\ i - n \in 1..(Len(line) - n) /\ n + (i - n) = i
      BY <1>1, <1>2, <1>3, <2>2
    <3> QED
      BY <1>3, <3>1
  <2>3. i <= n \/ i > n
    BY <1>1
  <2> QED
    BY <2>1, <2>2, <2>3
<1>6. line = part \o rest
  BY <1>4, <1>5, SeqEqual
<1>7. n = Len(line) => part = line
  BY <1>2, SeqEqual
<1>8. n < Len(line) => rest # <<>>
  BY <1>1, <1>3
<1> QED
  BY <1>2, <1>3, <1>6, <1>7, <1>8 DEF n, rest, part

LEMMA TokensType ==
  ASSUME NEW line \in Seq(Char)
  PROVE  Tokens(line) \in Seq(Char \cup {Eof})
<1>1. line \in Seq(Char \cup {Eof})
  BY SeqMonotonic
<1>2. <<Eof>> \in Seq(Char \cup {Eof})
  OBVIOUS
<1> QED
  BY <1>1, <1>2 DEF Tokens

LEMMA HandleType ==
  ASSUME TypeOK, NEW reqs \in Seq(Request), reqs # <<>>, inputs # <<>>, Handle(reqs)
  PROVE  /\ inputs' \in Seq(Seq(Char)) /\ requests' \in Seq(Request)
         /\ client' \in [Client -> {"idle", "waiting", "dead"}]
         /\ taken' \in Seq(Char \cup {Eof})
<1> DEFINE tr   == Head(reqs)
           line == Head(inputs)
           n    == IF Len(line) > tr.size THEN tr.size ELSE Len(line)
           rest == SubSeq(line, n + 1, Len(line))
           part == SubSeq(line, 1, n)
<1>1. tr \in Request /\ Tail(reqs) \in Seq(Request)
  BY HeadTail
<1>2. line \in Seq(Char) /\ Tail(inputs) \in Seq(Seq(Char))
  BY HeadTail DEF TypeOK
<1>3. tr.size \in Nat /\ tr.src \in Client
  BY <1>1, SizeAssumption DEF Request
<1>4. part \in Seq(Char) /\ rest \in Seq(Char)
  BY <1>2, <1>3, Cut
<1>5. inputs' = (IF n < Len(line) THEN <<rest>> \o Tail(inputs) ELSE Tail(inputs))
      /\ taken' = taken \o (IF line = <<>> THEN <<Eof>> ELSE part)
      /\ client' = Answer(tr.src) /\ requests' = Tail(reqs)
  BY DEF Handle
<1> HIDE DEF rest, part
<1>6. inputs' \in Seq(Seq(Char))
  BY <1>2, <1>4, <1>5, ConcatProperties
<1>7. taken' \in Seq(Char \cup {Eof})
  <2>1. part \in Seq(Char \cup {Eof}) /\ <<Eof>> \in Seq(Char \cup {Eof})
    BY <1>4, SeqMonotonic
  <2>2. taken \in Seq(Char \cup {Eof})
    BY DEF TypeOK
  <2> QED
    BY <1>5, <2>1, <2>2, ConcatProperties
<1> QED
  BY <1>1, <1>3, <1>5, <1>6, <1>7 DEF TypeOK, Answer

LEMMA InitType == Init => TypeOK
<1> SUFFICES ASSUME Init PROVE TypeOK
  OBVIOUS
<1>1. \A E : <<>> \in Seq(E)
  BY EmptySeq
<1>2. 0 \in 0..MaxChars
  BY BoundAssumption
<1> QED
  BY <1>1, <1>2 DEF Init, TypeOK

LEMMA NextType == TypeOK /\ [Next]_vars => TypeOK'
<1> SUFFICES ASSUME TypeOK, [Next]_vars PROVE TypeOK'
  OBVIOUS
<1> USE BoundAssumption
<1>1. CASE \E c \in Client : Rpc(c)
  BY <1>1 DEF Rpc, TypeOK, Message
<1>2. CASE ServeRead
  <2>1. mbox # <<>> /\ Head(mbox) \in Message /\ Tail(mbox) \in Seq(Message)
    BY <1>2, HeadTail DEF ServeRead, TypeOK
  <2> DEFINE tr == [src |-> Head(mbox).src, size |-> Head(mbox).size]
  <2>2. Append(requests, tr) \in Seq(Request) /\ Append(requests, tr) # <<>>
    <3>1. tr \in Request /\ requests \in Seq(Request)
      BY <2>1 DEF TypeOK, Message, Request
    <3> HIDE DEF tr
    <3> QED
      BY <3>1, AppendProperties
  <2>3. CASE inputs = <<>>
    BY <1>2, <2>1, <2>2, <2>3 DEF ServeRead, TypeOK
  <2>4. CASE inputs # <<>>
    <3>1. Handle(Append(requests, tr))
      BY <1>2, <2>4 DEF ServeRead
    <3>2. mbox' = Tail(mbox) /\ UNCHANGED <<buf, handler, typed, entered>>
      BY <1>2 DEF ServeRead
    <3> HIDE DEF tr
    <3> QED
      BY <2>1, <2>2, <2>4, <3>1, <3>2, HandleType DEF TypeOK
  <2> QED
    BY <2>3, <2>4
<1>3. CASE ServeOther
  <2>1. mbox # <<>> /\ Head(mbox) \in Message /\ Tail(mbox) \in Seq(Message)
    BY <1>3, HeadTail DEF ServeOther, TypeOK
  <2> QED
    BY <1>3, <2>1 DEF ServeOther, TypeOK, Message, Answer
<1>4. CASE Deliver
  BY <1>4 DEF Deliver, TypeOK
<1>5. CASE Ordinary
  BY <1>5 DEF Ordinary, Typed, TypeOK, Char
<1>6. Typed => /\ typed \in Nat /\ typed' \in 0..MaxChars /\ typed' \in Char
               /\ UNCHANGED <<requests, mbox, taken>>
  BY DEF Typed, TypeOK, Char
<1>7. CASE NewLine \/ CtrlD
  <2>1. PICK line \in Seq(Char) : Enter(line)
    <3>1. buf \in Seq(Char) /\ Typed
      BY <1>7 DEF NewLine, CtrlD, TypeOK
    <3>2. Append(buf, typed') \in Seq(Char)
      BY <1>6, <3>1, AppendProperties
    <3> QED
      BY <1>7, <3>1, <3>2 DEF NewLine, CtrlD
  <2>2. Typed /\ UNCHANGED <<client, handler>>
    BY <1>7 DEF NewLine, CtrlD
  <2>3. entered' \in Seq(Char \cup {Eof})
    BY <2>1, TokensType, ConcatProperties DEF Enter, TypeOK
  <2>4. inputs' \in Seq(Seq(Char))
    BY <2>1, AppendProperties DEF Enter, TypeOK
  <2> QED
    BY <1>6, <2>1, <2>2, <2>3, <2>4, EmptySeq DEF Enter, TypeOK
<1>8. CASE Erase
  <2>1. buf # <<>> => Front(buf) \in Seq(Char)
    BY DEF Front, TypeOK
  <2> QED
    BY <1>8, <2>1 DEF Erase, Typed, TypeOK
<1>9. CASE CtrlC
  BY <1>6, <1>9 DEF CtrlC, TypeOK
<1>10. CASE DeliverEnds
  BY <1>10, HandleType DEF DeliverEnds, TypeOK
<1>11. CASE UNCHANGED vars
  BY <1>11 DEF vars, TypeOK
<1> QED
  BY <1>1, <1>2, <1>3, <1>4, <1>5, <1>7, <1>8, <1>9, <1>10, <1>11 DEF Next

\* Whatever is typed and asked, in any order, the server's queues hold what their types say.
THEOREM TypeCorrect == Spec => []TypeOK
<1> QED
  BY InitType, NextType, PTL DEF Spec

-----------------------------------------------------------------------------
(* The requests.  A client has at most one: where it is tells what the     *)
(* client does.                                                            *)

Once(q)   == \A i, j \in 1..Len(q) : q[i].src = q[j].src => i = j
Has(q, c) == \E i \in 1..Len(q) : q[i].src = c

\* In the mailbox m and in the queue r, when the clients do what cl says.
ReqOK(m, r, cl) ==
  /\ Once(m) /\ Once(r)
  /\ \A c \in Client :
       /\ ~(Has(m, c) /\ Has(r, c))
       /\ cl[c] = "waiting" => Has(m, c) \/ Has(r, c)
       /\ cl[c] = "idle" => ~Has(m, c) /\ ~Has(r, c)

LEMMA OnceAppend ==
  ASSUME NEW E, NEW q \in Seq(E), NEW r \in E
  PROVE  /\ \A c : Has(Append(q, r), c) <=> Has(q, c) \/ c = r.src
         /\ Once(q) /\ ~Has(q, r.src) => Once(Append(q, r))
<1> DEFINE p == Append(q, r)
           n == Len(q)
<1>1. /\ Len(p) = n + 1 /\ n \in Nat /\ p[n + 1] = r
      /\ \A i \in 1..n : p[i] = q[i]
  BY AppendProperties
<1> HIDE DEF p
<1>2. \A i \in 1..(n + 1) : i \in 1..n \/ i = n + 1
  BY <1>1
<1>3. ASSUME NEW c PROVE Has(p, c) <=> Has(q, c) \/ c = r.src
  BY <1>1, <1>2 DEF Has
<1>4. Once(q) /\ ~Has(q, r.src) => Once(p)
  BY <1>1, <1>2 DEF Has, Once
<1> QED
  BY <1>3, <1>4 DEF p

LEMMA OnceTail ==
  ASSUME NEW E, NEW q \in Seq(E), q # <<>>, Once(q)
  PROVE  /\ \A c : Has(Tail(q), c) <=> Has(q, c) /\ c # Head(q).src
         /\ Once(Tail(q)) /\ Has(q, Head(q).src)
<1> DEFINE p == Tail(q)
           n == Len(p)
<1>1. /\ Head(q) = q[1] /\ n = Len(q) - 1 /\ Len(q) \in Nat \ {0}
      /\ \A i \in 1..n : p[i] = q[i + 1] /\ i + 1 \in 1..Len(q)
  BY HeadTail
<1> HIDE DEF p
<1>2. n \in Nat /\ 1 \in 1..Len(q) /\ \A i \in 1..Len(q) : i = 1 \/ i - 1 \in 1..n
  BY <1>1
<1>3. ASSUME NEW c PROVE Has(p, c) => Has(q, c) /\ c # Head(q).src
  <2> SUFFICES ASSUME NEW i \in 1..n, p[i].src = c PROVE Has(q, c) /\ c # q[1].src
    BY <1>1 DEF Has
  <2>1. q[i + 1].src = c /\ i + 1 \in 1..Len(q) /\ i + 1 # 1
    BY <1>1
  <2> QED
    BY <1>2, <2>1 DEF Once, Has
<1>4. ASSUME NEW c, Has(q, c), c # q[1].src PROVE Has(p, c)
  <2>1. PICK i \in 1..Len(q) : q[i].src = c
    BY <1>4 DEF Has
  <2>2. i - 1 \in 1..n /\ (i - 1) + 1 = i
    BY <1>2, <1>4, <2>1
  <2>3. p[i - 1] = q[(i - 1) + 1]
    BY <1>1, <2>2
  <2> QED
    BY <2>1, <2>2, <2>3 DEF Has
<1>5. Once(p)
  <2> SUFFICES ASSUME NEW i \in 1..n, NEW j \in 1..n, p[i].src = p[j].src PROVE i = j
    BY DEF Once
  <2>1. /\ q[i + 1].src = q[j + 1].src /\ i + 1 \in 1..Len(q) /\ j + 1 \in 1..Len(q)
    BY <1>1
  <2>2. i + 1 = j + 1
    BY <2>1 DEF Once
  <2> QED
    BY <1>2, <2>2
<1> QED
  BY <1>1, <1>2, <1>3, <1>4, <1>5 DEF p, Has

\* The answer to the first request of the queue.
LEMMA AnswerFirst ==
  ASSUME NEW m, NEW r \in Seq(Request), r # <<>>, ReqOK(m, r, client), TypeOK
  PROVE  ReqOK(m, Tail(r), Answer(Head(r).src))
<1>1. Head(r).src \in Client
  <2>1. Head(r) \in Request
    BY HeadTail
  <2> QED
    BY <2>1 DEF Request
<1>2. /\ \A c : Has(Tail(r), c) <=> Has(r, c) /\ c # Head(r).src
      /\ Once(Tail(r)) /\ Has(r, Head(r).src)
  BY OnceTail DEF ReqOK
<1>3. ASSUME NEW c \in Client PROVE Answer(Head(r).src)[c] = IF c = Head(r).src /\ client[c] = "waiting"
                                                            THEN "idle" ELSE client[c]
  BY <1>1 DEF Answer, TypeOK
<1> QED
  BY <1>1, <1>2, <1>3 DEF ReqOK

LEMMA NextRequests ==
  TypeOK /\ ReqOK(mbox, requests, client) /\ [Next]_vars => ReqOK(mbox', requests', client')
<1> SUFFICES ASSUME TypeOK, ReqOK(mbox, requests, client), [Next]_vars
             PROVE  ReqOK(mbox', requests', client')
  OBVIOUS
<1>0. /\ mbox \in Seq(Message) /\ requests \in Seq(Request)
      /\ client \in [Client -> {"idle", "waiting", "dead"}]
  BY DEF TypeOK
<1>1. CASE \E c \in Client : Rpc(c)
  <2>1. PICK c \in Client : Rpc(c)
    BY <1>1
  <2>2. PICK type \in {"read", "other"}, size \in Sizes :
          mbox' = Append(mbox, [src |-> c, size |-> size, type |-> type])
    BY <2>1 DEF Rpc
  <2> DEFINE m == [src |-> c, size |-> size, type |-> type]
  <2>3. m \in Message /\ m.src = c
    BY DEF Message
  <2> HIDE DEF m
  <2>4. /\ client[c] = "idle" /\ client' = [client EXCEPT ![c] = "waiting"]
        /\ requests' = requests
    BY <2>1 DEF Rpc
  <2>5. mbox' = Append(mbox, m)
    BY <2>2 DEF m
  <2>6. ~Has(mbox, c) /\ ~Has(requests, c) /\ Once(mbox)
    BY <2>4 DEF ReqOK
  <2>7. (\A d : Has(mbox', d) <=> Has(mbox, d) \/ d = c) /\ Once(mbox')
    BY <1>0, <2>3, <2>5, <2>6, OnceAppend
  <2>8. \A d \in Client : client'[d] = IF d = c THEN "waiting" ELSE client[d]
    BY <1>0, <2>4
  <2> QED
    BY <2>4, <2>6, <2>7, <2>8 DEF ReqOK
<1>2. CASE ServeRead
  <2> DEFINE h == Head(mbox)
             r == [src |-> h.src, size |-> h.size]
  <2>1. mbox # <<>> /\ h \in Message /\ mbox' = Tail(mbox)
    BY <1>0, <1>2, HeadTail DEF ServeRead
  <2>2. r \in Request /\ r.src = h.src /\ r.src \in Client
    BY <2>1 DEF Message, Request
  <2>3. IF inputs = <<>>
        THEN requests' = Append(requests, r) /\ UNCHANGED <<inputs, taken, client>>
        ELSE Handle(Append(requests, r))
    BY <1>2 DEF ServeRead
  <2> HIDE DEF h, r
  <2>4. /\ \A c : Has(mbox', c) <=> Has(mbox, c) /\ c # r.src
        /\ Once(mbox') /\ Has(mbox, r.src)
    <3>1. Once(mbox)
      BY DEF ReqOK
    <3> QED
      BY <1>0, <2>1, <2>2, <3>1, OnceTail DEF h
  <2>5. /\ \A c : Has(Append(requests, r), c) <=> Has(requests, c) \/ c = r.src
        /\ Once(Append(requests, r))
    <3>1. Once(requests) /\ ~Has(requests, r.src)
      BY <2>2, <2>4 DEF ReqOK
    <3> QED
      BY <1>0, <2>2, <3>1, OnceAppend
  <2>6. ReqOK(mbox', Append(requests, r), client)
    BY <2>4, <2>5 DEF ReqOK
  <2>7. Append(requests, r) \in Seq(Request) /\ Append(requests, r) # <<>>
    BY <1>0, <2>2, AppendProperties
  <2>8. CASE inputs = <<>>
    BY <2>3, <2>6, <2>8
  <2>9. CASE inputs # <<>>
    <3>1. requests' = Tail(Append(requests, r)) /\ client' = Answer(Head(Append(requests, r)).src)
      BY <2>3, <2>9 DEF Handle
    <3> DEFINE q == Append(requests, r)
    <3> HIDE DEF q
    <3>2. ReqOK(mbox', Tail(q), Answer(Head(q).src))
      BY <2>6, <2>7, AnswerFirst DEF q
    <3> QED
      BY <3>1, <3>2 DEF q
  <2> QED
    BY <2>8, <2>9
<1>3. CASE ServeOther
  <2> DEFINE h == Head(mbox)
  <2>1. mbox # <<>> /\ h \in Message /\ mbox' = Tail(mbox) /\ client' = Answer(h.src)
        /\ requests' = requests
    BY <1>0, <1>3, HeadTail DEF ServeOther
  <2>2. h.src \in Client
    BY <2>1 DEF Message
  <2> HIDE DEF h
  <2>3. /\ \A c : Has(mbox', c) <=> Has(mbox, c) /\ c # h.src
        /\ Once(mbox') /\ Has(mbox, h.src)
    <3>1. Once(mbox)
      BY DEF ReqOK
    <3> QED
      BY <1>0, <2>1, <3>1, OnceTail DEF h
  <2>4. \A c \in Client : client'[c] = IF c = h.src /\ client[c] = "waiting" THEN "idle" ELSE client[c]
    BY <1>0, <2>1, <2>2 DEF Answer
  <2> QED
    BY <2>1, <2>2, <2>3, <2>4 DEF ReqOK
<1>4. CASE CtrlC
  <2>1. /\ client' = [c \in Client |-> IF c \in Jobs THEN "dead" ELSE client[c]]
        /\ mbox' = mbox /\ requests' = requests
    BY <1>4 DEF CtrlC, Typed
  <2> QED
    BY <2>1 DEF ReqOK
<1>5. CASE DeliverEnds
  <2>1. CASE inputs # <<>> /\ requests # <<>>
    <3>1. requests' = Tail(requests) /\ client' = Answer(Head(requests).src) /\ mbox' = mbox
      BY <1>5, <2>1 DEF DeliverEnds, Handle
    <3> QED
      BY <1>0, <2>1, <3>1, AnswerFirst
  <2>2. CASE ~(inputs # <<>> /\ requests # <<>>)
    BY <1>5, <2>2 DEF DeliverEnds
  <2> QED
    BY <2>1, <2>2
<1>6. CASE Deliver \/ Ordinary \/ NewLine \/ CtrlD \/ Erase \/ UNCHANGED vars
  BY <1>6 DEF Deliver, Ordinary, NewLine, CtrlD, Erase, Typed, vars
<1> QED
  BY <1>1, <1>2, <1>3, <1>4, <1>5, <1>6 DEF Next

RequestsOK == ReqOK(mbox, requests, client)

\* The requests of tty_read_requests and of the mailbox are of clients that wait, or that were
\* killed: the inductive form of RequestOfWaiting.
THEOREM RequestsCorrect == Spec => []RequestsOK
<1>1. Init => RequestsOK
  <2> SUFFICES ASSUME Init PROVE RequestsOK
    OBVIOUS
  <2>1. mbox = <<>> /\ requests = <<>> /\ \A c \in Client : client[c] = "idle"
    BY DEF Init
  <2>2. 1..Len(<<>>) = {}
    OBVIOUS
  <2> QED
    BY <2>1, <2>2 DEF RequestsOK, ReqOK, Once, Has
<1>2. TypeOK /\ RequestsOK /\ [Next]_vars => RequestsOK'
  BY NextRequests DEF RequestsOK
<1> QED
  BY <1>1, <1>2, TypeCorrect, PTL DEF Spec

\* The requests that came from c, for a queue where each client has at most one.
LEMMA MineIs ==
  ASSUME NEW q, Once(q), NEW c, DOMAIN q = 1..Len(q)
  PROVE  Cardinality({i \in DOMAIN q : q[i].src = c}) = IF Has(q, c) THEN 1 ELSE 0
<1> DEFINE mine == {i \in DOMAIN q : q[i].src = c}
<1>1. CASE Has(q, c)
  <2>1. PICK i \in 1..Len(q) : q[i].src = c
    BY <1>1 DEF Has
  <2>2. mine = {i}
    BY <2>1 DEF Once
  <2> QED
    BY <1>1, <2>2, FS_Singleton
<1>2. CASE ~Has(q, c)
  <2>1. mine = {}
    BY <1>2 DEF Has
  <2> QED
    BY <1>2, <2>1, FS_EmptySet
<1> QED
  BY <1>1, <1>2

\* No reader is forgotten or answered twice: a client that waits has one request, in the
\* mailbox or in the queue of the server, and one that is not waiting has none, unless it
\* was killed with its request there.
THEOREM RequestOfWaitingCorrect == Spec => []RequestOfWaiting
<1>1. TypeOK /\ RequestsOK => RequestOfWaiting
  <2> SUFFICES ASSUME TypeOK, RequestsOK, NEW c \in Client
               PROVE  LET mine(q) == {i \in DOMAIN q : q[i].src = c}
                          n == Cardinality(mine(mbox)) + Cardinality(mine(requests))
                      IN  n = 1 \/ (n = 0 /\ client[c] # "waiting")
    BY DEF RequestOfWaiting
  <2>1. DOMAIN mbox = 1..Len(mbox) /\ DOMAIN requests = 1..Len(requests)
    BY DEF TypeOK
  <2>2. /\ Cardinality({i \in DOMAIN mbox : mbox[i].src = c}) = IF Has(mbox, c) THEN 1 ELSE 0
        /\ Cardinality({i \in DOMAIN requests : requests[i].src = c})
             = IF Has(requests, c) THEN 1 ELSE 0
    BY <2>1, MineIs DEF RequestsOK, ReqOK
  <2>3. ~(Has(mbox, c) /\ Has(requests, c))
        /\ (client[c] = "waiting" => Has(mbox, c) \/ Has(requests, c))
    BY DEF RequestsOK, ReqOK
  <2> QED
    BY <2>2, <2>3
<1> QED
  BY <1>1, RequestsCorrect, TypeCorrect, PTL

-----------------------------------------------------------------------------
(* The stream of what is typed.                                            *)

\* The lines as the history has them.
Lines(ins) == [i \in DOMAIN ins |-> Tokens(ins[i])]

LEMMA LinesAre ==
  ASSUME NEW ins \in Seq(Seq(Char)), NEW line \in Seq(Char)
  PROVE  /\ Lines(ins) \in Seq(Seq(Char \cup {Eof}))
         /\ Lines(Append(ins, line)) = Append(Lines(ins), Tokens(line))
         /\ Lines(<<line>> \o ins) = <<Tokens(line)>> \o Lines(ins)
<1> DEFINE C == Char \cup {Eof}
           n == Len(ins)
<1>1. n \in Nat /\ DOMAIN ins = 1..n /\ \A i \in 1..n : ins[i] \in Seq(Char)
  BY ElementOfSeq
<1>2. Lines(ins) \in [1..n -> Seq(C)]
  BY <1>1, TokensType DEF Lines
<1>3. Lines(ins) \in Seq(Seq(C)) /\ Len(Lines(ins)) = n
  <2> DEFINE D == Seq(C)
             q == Lines(ins)
  <2>1. q \in [1..n -> D] /\ n \in Nat
    BY <1>1, <1>2
  <2> HIDE DEF D, q, n
  <2>2. q \in Seq(D) /\ Len(q) = n
    BY <2>1
  <2> QED
    BY <2>2 DEF D, q
<1>4. Tokens(line) \in Seq(C)
  BY TokensType
<1>5. Lines(Append(ins, line)) = Append(Lines(ins), Tokens(line))
  <2> DEFINE p == Append(ins, line)
             q == Append(Lines(ins), Tokens(line))
  <2>1. /\ p \in Seq(Seq(Char)) /\ Len(p) = n + 1 /\ p[n + 1] = line
        /\ \A i \in 1..n : p[i] = ins[i]
    BY AppendProperties
  <2>2. /\ q \in Seq(Seq(C)) /\ Len(q) = n + 1 /\ q[n + 1] = Tokens(line)
        /\ \A i \in 1..n : q[i] = Lines(ins)[i]
    BY <1>3, <1>4, AppendProperties
  <2> HIDE DEF p, q
  <2>3. DOMAIN p = 1..(n + 1) /\ q = [i \in 1..(n + 1) |-> q[i]]
    BY <2>1, <2>2
  <2>4. ASSUME NEW i \in 1..(n + 1) PROVE q[i] = Tokens(p[i])
    <3>1. i \in 1..n \/ i = n + 1
      BY <1>1
    <3> QED
      BY <1>1, <2>1, <2>2, <3>1 DEF Lines
  <2>5. Lines(p) = q
    BY <2>3, <2>4 DEF Lines
  <2> QED
    BY <2>5 DEF p, q
<1>6. Lines(<<line>> \o ins) = <<Tokens(line)>> \o Lines(ins)
  <2> DEFINE p == <<line>> \o ins
             q == <<Tokens(line)>> \o Lines(ins)
  <2>1. /\ p \in Seq(Seq(Char)) /\ Len(p) = n + 1 /\ p[1] = line
        /\ \A i \in 2..(n + 1) : p[i] = ins[i - 1]
    OBVIOUS
  <2>2. /\ q \in Seq(Seq(C)) /\ Len(q) = n + 1 /\ q[1] = Tokens(line)
        /\ \A i \in 2..(n + 1) : q[i] = Lines(ins)[i - 1]
    BY <1>1, <1>3, <1>4
  <2> HIDE DEF p, q
  <2>3. DOMAIN p = 1..(n + 1) /\ q = [i \in 1..(n + 1) |-> q[i]]
    BY <2>1, <2>2
  <2>4. ASSUME NEW i \in 1..(n + 1) PROVE q[i] = Tokens(p[i])
    <3>1. i = 1 \/ (i \in 2..(n + 1) /\ i - 1 \in 1..n)
      BY <1>1
    <3> QED
      BY <1>1, <2>1, <2>2, <3>1 DEF Lines
  <2>5. Lines(p) = q
    BY <2>3, <2>4 DEF Lines
  <2> QED
    BY <2>5 DEF p, q
<1> QED
  BY <1>3, <1>5, <1>6

\* What the lines still have to give.
Flat(ins) == FlattenSeq(Lines(ins))

LEMMA FlatIs ==
  ASSUME NEW ins \in Seq(Seq(Char)), NEW line \in Seq(Char)
  PROVE  /\ Flat(ins) \in Seq(Char \cup {Eof})
         /\ Flat(Append(ins, line)) = Flat(ins) \o Tokens(line)
         /\ Flat(<<line>> \o ins) = Tokens(line) \o Flat(ins)
<1> DEFINE q == Lines(ins)
           x == Tokens(line)
<1>1. /\ q \in Seq(Seq(Char \cup {Eof})) /\ x \in Seq(Char \cup {Eof})
      /\ Lines(Append(ins, line)) = Append(q, x)
      /\ Lines(<<line>> \o ins) = <<x>> \o q
  BY LinesAre, TokensType
<1> HIDE DEF q, x
<1>2. /\ FlattenSeq(q) \in Seq(Char \cup {Eof})
      /\ FlattenSeq(Append(q, x)) = FlattenSeq(q) \o x
  BY <1>1, FlattenAppend
<1>3. FlattenSeq(<<x>> \o q) = x \o FlattenSeq(q)
  BY <1>1, FlattenFirst
<1> QED
  BY <1>1, <1>2, <1>3 DEF Flat, q, x

\* An answer takes what it gives away from the front of the stream.
LEMMA HandleStream ==
  ASSUME TypeOK, NEW reqs \in Seq(Request), reqs # <<>>, inputs # <<>>, Handle(reqs)
  PROVE  taken' \o Flat(inputs') = taken \o Flat(inputs)
<1> DEFINE C    == Char \cup {Eof}
           tr   == Head(reqs)
           line == Head(inputs)
           tl   == Tail(inputs)
           n    == IF Len(line) > tr.size THEN tr.size ELSE Len(line)
           rest == SubSeq(line, n + 1, Len(line))
           part == SubSeq(line, 1, n)
           give == IF line = <<>> THEN <<Eof>> ELSE part
<1>1. inputs' = (IF n < Len(line) THEN <<rest>> \o tl ELSE tl) /\ taken' = taken \o give
  BY DEF Handle
<1>2. /\ line \in Seq(Char) /\ tl \in Seq(Seq(Char)) /\ inputs = <<line>> \o tl
      /\ taken \in Seq(C)
  BY HeadTail DEF TypeOK
<1>3. tr.size \in Nat
  <2>1. tr \in Request
    BY HeadTail
  <2> QED
    BY <2>1, SizeAssumption DEF Request
<1>4. /\ part \in Seq(Char) /\ rest \in Seq(Char) /\ line = part \o rest
      /\ n = Len(line) => part = line
      /\ n < Len(line) => rest # <<>>
  <2> DEFINE size == tr.size
  <2>1. line \in Seq(Char) /\ size \in Nat
    BY <1>2, <1>3
  <2> HIDE DEF line, size
  <2> QED
    BY <2>1, Cut DEF size
<1>5. /\ Len(line) \in Nat /\ n \in Nat /\ n <= Len(line) /\ (line = <<>> => Len(line) = 0)
      /\ ~(n < Len(line)) => n = Len(line)
  <2>1. Len(line) \in Nat /\ (line = <<>> => Len(line) = 0)
    BY <1>2
  <2> QED
    BY <1>3, <2>1
<1> HIDE DEF rest, part, n, line, tl, C
<1>6. Flat(inputs) = Tokens(line) \o Flat(tl) /\ Flat(tl) \in Seq(C) /\ Tokens(line) \in Seq(C)
  BY <1>2, FlatIs, TokensType DEF C
<1>7. CASE n < Len(line)
  <2>1. line # <<>> /\ rest # <<>>
    BY <1>4, <1>5, <1>7
  <2>2. give = part /\ Tokens(line) = part \o rest /\ Tokens(rest) = rest
    BY <1>4, <2>1 DEF Tokens
  <2>3. Flat(inputs') = rest \o Flat(tl)
    <3>1. inputs' = <<rest>> \o tl
      BY <1>1, <1>7
    <3> QED
      BY <1>2, <1>4, <2>2, <3>1, FlatIs
  <2>4. part \in Seq(C) /\ rest \in Seq(C)
    BY <1>4, SeqMonotonic DEF C
  <2> DEFINE f == Flat(tl)
  <2>5. f \in Seq(C)
    BY <1>6
  <2> HIDE DEF f
  <2>6. (taken \o part) \o (rest \o f) = taken \o ((part \o rest) \o f)
    <3>1. rest \o f \in Seq(C)
      BY <2>4, <2>5
    <3> DEFINE g == rest \o f
    <3>4. g \in Seq(C)
      BY <3>1
    <3> HIDE DEF g
    <3>2. (taken \o part) \o g = taken \o (part \o g)
      BY <1>2, <2>4, <3>4, ConcatAssociative
    <3>3. part \o (rest \o f) = (part \o rest) \o f
      BY <2>4, <2>5, ConcatAssociative
    <3> QED
      BY <3>2, <3>3 DEF g
  <2> QED
    BY <1>1, <1>6, <2>2, <2>3, <2>6 DEF f
<1>8. CASE ~(n < Len(line))
  <2>1. part = line /\ inputs' = tl
    <3>1. n = Len(line)
      BY <1>5, <1>8
    <3> QED
      BY <1>1, <1>4, <1>8, <3>1
  <2>2. give = Tokens(line)
    BY <2>1 DEF Tokens
  <2> DEFINE f == Flat(tl)
             x == Tokens(line)
  <2>3. f \in Seq(C) /\ x \in Seq(C)
    BY <1>6
  <2> HIDE DEF f, x
  <2>4. (taken \o x) \o f = taken \o (x \o f)
    BY <1>2, <2>3, ConcatAssociative
  <2> QED
    BY <1>1, <1>6, <2>1, <2>2, <2>4 DEF f, x
<1> QED
  BY <1>7, <1>8

LEMMA NextStream ==
  TypeOK /\ Stream /\ [Next]_vars => Stream'
<1> SUFFICES ASSUME TypeOK, entered = taken \o Flat(inputs), [Next]_vars
             PROVE  entered' = taken' \o Flat(inputs')
  BY DEF Stream, Flat, Lines
<1>1. CASE ServeRead
  <2>1. entered' = entered
    BY <1>1 DEF ServeRead
  <2>2. CASE inputs = <<>>
    BY <1>1, <2>1, <2>2 DEF ServeRead
  <2>3. CASE inputs # <<>>
    <3> DEFINE q == Append(requests, [src |-> Head(mbox).src, size |-> Head(mbox).size])
    <3>1. Handle(q)
      BY <1>1, <2>3 DEF ServeRead
    <3>2. q \in Seq(Request) /\ q # <<>>
      <4>1. Head(mbox) \in Message
        BY <1>1, HeadTail DEF ServeRead, TypeOK
      <4>2. requests \in Seq(Request)
            /\ [src |-> Head(mbox).src, size |-> Head(mbox).size] \in Request
        BY <4>1 DEF Message, Request, TypeOK
      <4> QED
        BY <4>2, AppendProperties
    <3> HIDE DEF q
    <3> QED
      BY <2>1, <2>3, <3>1, <3>2, HandleStream
  <2> QED
    BY <2>2, <2>3
<1>2. CASE NewLine \/ CtrlD
  <2>1. PICK line \in Seq(Char) : Enter(line)
    <3>1. (buf \in Seq(Char) /\ typed + 1 \in Char) \/ ~Typed
      BY BoundAssumption DEF TypeOK, Typed, Char
    <3>2. Typed => typed' = typed + 1
      BY DEF Typed
    <3>3. (buf \in Seq(Char) /\ Append(buf, typed') \in Seq(Char)) \/ ~Typed
      BY <3>1, <3>2, AppendProperties
    <3> QED
      BY <1>2, <3>3 DEF NewLine, CtrlD
  <2>2. taken' = taken
    BY <1>2 DEF NewLine, CtrlD, Typed
  <2> DEFINE f == Flat(inputs)
             x == Tokens(line)
  <2>3. Flat(inputs') = f \o x /\ f \in Seq(Char \cup {Eof}) /\ x \in Seq(Char \cup {Eof})
    BY <2>1, FlatIs, TokensType DEF Enter, TypeOK
  <2>4. entered' = (taken \o f) \o x /\ taken \in Seq(Char \cup {Eof})
    BY <2>1 DEF Enter, TypeOK
  <2> HIDE DEF f, x
  <2>5. (taken \o f) \o x = taken \o (f \o x)
    BY <2>3, <2>4, ConcatAssociative
  <2> QED
    BY <2>2, <2>3, <2>4, <2>5
<1>3. CASE DeliverEnds
  <2>1. entered' = entered
    BY <1>3 DEF DeliverEnds
  <2>2. CASE inputs # <<>> /\ requests # <<>>
    <3>1. Handle(requests) /\ requests \in Seq(Request)
      BY <1>3, <2>2 DEF DeliverEnds, TypeOK
    <3> QED
      BY <2>1, <2>2, <3>1, HandleStream
  <2>3. CASE ~(inputs # <<>> /\ requests # <<>>)
    BY <1>3, <2>1, <2>3 DEF DeliverEnds
  <2> QED
    BY <2>2, <2>3
<1>4. CASE \/ \E c \in Client : Rpc(c)
           \/ ServeOther \/ Deliver \/ Ordinary \/ Erase \/ CtrlC \/ UNCHANGED vars
  BY <1>4 DEF Rpc, ServeOther, Deliver, Ordinary, Erase, CtrlC, Typed, vars
<1> QED
  BY <1>1, <1>2, <1>3, <1>4 DEF Next

\* No character and no end of file is lost, duplicated, moved or invented between the
\* keyboard and the answers, however long the lines, whatever sizes are asked for and
\* whoever is killed.
THEOREM StreamCorrect == Spec => []Stream
<1>1. Init => Stream
  <2> SUFFICES ASSUME Init PROVE entered = taken \o Flat(inputs)
    BY DEF Stream, Flat, Lines
  <2>1. entered = <<>> /\ taken = <<>> /\ inputs = <<>>
    BY DEF Init
  <2>2. Lines(<<>>) = <<>>
    BY DEF Lines
  <2> QED
    BY <2>1, <2>2, FlattenNone DEF Flat
<1> QED
  BY <1>1, NextStream, TypeCorrect, PTL DEF Spec

-----------------------------------------------------------------------------
(* The order of the answers.                                               *)

\* The requests in the queue and in the mailbox are all of different clients.
LEMMA AskedOnce ==
  ASSUME TypeOK, RequestsOK
  PROVE  LET asked == requests \o mbox
         IN  /\ DOMAIN asked = 1..(Len(requests) + Len(mbox))
             /\ \A i \in DOMAIN asked : asked[i].src \in Client
             /\ \A i, j \in DOMAIN asked : asked[i].src = asked[j].src => i = j
<1> DEFINE asked == requests \o mbox
           n == Len(requests)
           m == Len(mbox)
<1>1. requests \in Seq(Request) /\ mbox \in Seq(Message) /\ n \in Nat /\ m \in Nat
  BY DEF TypeOK
<1>2. /\ DOMAIN asked = 1..(n + m)
      /\ \A i \in 1..n : asked[i] = requests[i]
      /\ \A i \in (n + 1)..(n + m) : asked[i] = mbox[i - n] /\ i - n \in 1..m
      /\ \A i \in 1..(n + m) : i \in 1..n \/ i \in (n + 1)..(n + m)
  BY <1>1
<1>3. (\A i \in 1..n : requests[i] \in Request) /\ (\A i \in 1..m : mbox[i] \in Message)
  BY <1>1, ElementOfSeq
<1> HIDE DEF asked
<1>4. \A i \in DOMAIN asked : asked[i].src \in Client
  BY <1>2, <1>3 DEF Request, Message
<1>5. ASSUME NEW i \in DOMAIN asked, NEW j \in DOMAIN asked, asked[i].src = asked[j].src
      PROVE  i = j
  <2>1. /\ i \in 1..n => Has(requests, asked[i].src)
        /\ i \notin 1..n => Has(mbox, asked[i].src)
        /\ j \in 1..n => Has(requests, asked[j].src)
        /\ j \notin 1..n => Has(mbox, asked[j].src)
    BY <1>2 DEF Has
  <2>2. i \in 1..n <=> j \in 1..n
    BY <1>4, <1>5, <2>1 DEF RequestsOK, ReqOK
  <2>3. CASE i \in 1..n
    BY <1>2, <1>5, <2>2, <2>3 DEF RequestsOK, ReqOK, Once
  <2>4. CASE i \notin 1..n
    <3>1. i \in (n + 1)..(n + m) /\ j \in (n + 1)..(n + m)
      BY <1>2, <2>2, <2>4
    <3>2. i - n = j - n
      BY <1>2, <1>5, <3>1 DEF RequestsOK, ReqOK, Once
    <3> QED
      BY <1>1, <3>1, <3>2
  <2> QED
    BY <2>3, <2>4
<1> QED
  BY <1>2, <1>4, <1>5 DEF asked

\* Readers are answered in the order in which they asked: when one is, nobody who asked
\* before still waits.
THEOREM ReadersInOrderCorrect == Spec => ReadersInOrder
<1> DEFINE asked   == requests \o mbox
           n       == Len(requests)
           reads   == {i \in DOMAIN asked : i > n => asked[i].type = "read"}
           done(c) == client[c] = "waiting" /\ client'[c] = "idle"
           Order   == \A i, j \in reads :
                        i < j /\ done(asked[j].src) => client'[asked[i].src] # "waiting"
<1>1. TypeOK /\ RequestsOK /\ [Next]_vars => [Order]_vars
  <2> SUFFICES ASSUME TypeOK, RequestsOK, Next,
                      NEW i \in reads, NEW j \in reads, i < j, done(asked[j].src)
               PROVE  FALSE
    OBVIOUS
  <2>1. /\ requests \in Seq(Request) /\ mbox \in Seq(Message)
        /\ client \in [Client -> {"idle", "waiting", "dead"}]
    BY DEF TypeOK
  <2>2. /\ DOMAIN asked = 1..(n + Len(mbox))
        /\ \A x \in DOMAIN asked : asked[x].src \in Client
        /\ \A x, y \in DOMAIN asked : asked[x].src = asked[y].src => x = y
    BY AskedOnce
  <2>3. n \in Nat /\ Len(mbox) \in Nat /\ i \in 1..(n + Len(mbox)) /\ j \in 1..(n + Len(mbox)) /\ j # 1
    BY <2>1, <2>2
  <2>4. /\ n > 0 => asked[1] = requests[1]
        /\ mbox # <<>> => asked[n + 1] = mbox[1] /\ n + 1 \in 1..(n + Len(mbox))
    BY <2>1
  \* The one that is answered is the first, or not a reader.
  <2>5. ASSUME NEW c, client' = Answer(c) PROVE asked[j].src = c
    BY <2>1, <2>2, <2>5 DEF Answer
  <2> HIDE DEF asked
  <2>6. CASE ServeRead
    <3> DEFINE q == Append(requests, [src |-> Head(mbox).src, size |-> Head(mbox).size])
    <3>1. inputs # <<>> /\ client' = Answer(Head(q).src) /\ mbox # <<>>
      BY <2>2, <2>6 DEF ServeRead, Handle
    <3>2. Head(q).src = asked[1].src
      <4>1. Head(q) = IF n > 0 THEN requests[1] ELSE [src |-> Head(mbox).src, size |-> Head(mbox).size]
        BY <2>1
      <4>2. Head(mbox) = mbox[1]
        BY <2>1, <3>1
      <4> QED
        BY <2>3, <2>4, <3>1, <4>1, <4>2
    <3> QED
      BY <2>2, <2>3, <2>5, <3>1, <3>2
  <2>7. CASE ServeOther
    <3>1. client' = Answer(Head(mbox).src) /\ mbox # <<>> /\ Head(mbox).type = "other"
      BY <2>7 DEF ServeOther
    <3>2. Head(mbox) = mbox[1]
      BY <2>1, <3>1
    <3>3. j = n + 1
      BY <2>2, <2>3, <2>4, <2>5, <3>1, <3>2
    <3> QED
      BY <2>3, <2>4, <3>1, <3>2, <3>3
  <2>8. CASE DeliverEnds
    <3>1. requests # <<>> /\ client' = Answer(Head(requests).src)
      BY <2>2, <2>8 DEF DeliverEnds, Handle
    <3>2. Head(requests) = requests[1] /\ n > 0
      BY <2>1, <3>1
    <3> QED
      BY <2>2, <2>3, <2>4, <2>5, <3>1, <3>2
  <2>9. CASE \E c \in Client : Rpc(c)
    BY <2>1, <2>2, <2>9 DEF Rpc
  <2>10. CASE CtrlC
    BY <2>2, <2>10 DEF CtrlC
  <2>11. CASE Deliver \/ Ordinary \/ NewLine \/ CtrlD \/ Erase
    BY <2>2, <2>11 DEF Deliver, Ordinary, NewLine, CtrlD, Erase
  <2> QED
    BY <2>6, <2>7, <2>8, <2>9, <2>10, <2>11 DEF Next
<1>2. [][Order]_vars => ReadersInOrder
  BY DEF ReadersInOrder
<1> QED
  BY <1>1, <1>2, RequestsCorrect, TypeCorrect, PTL DEF Spec
=============================================================================
