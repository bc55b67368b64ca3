--------------------------- MODULE FileServerProofs ---------------------------
(***************************************************************************)
(* Proofs about the block file server: what its cache and the array of      *)
(* control blocks have to do with each other, and that a read returns what  *)
(* was written.                                                             *)
(***************************************************************************)
EXTENDS FileServer, WellFoundedInduction, FiniteSetTheorems, TLAPS

-----------------------------------------------------------------------------
(* Sets of natural numbers.                                                *)

\* A nonempty set of natural numbers has a least element: a loop that looks for
\* the first of something finds it, if it is there.
LEMMA Least ==
  ASSUME NEW S \in SUBSET Nat, S # {}
  PROVE  \E x \in S : \A y \in S : x <= y
<1>1. PICK x \in S : \A y \in S : ~(<<y, x>> \in OpToRel(<, Nat))
  BY NatLessThanWellFounded, WFMin, Zenon
<1>2. \A y \in S : ~(y < x)
  BY <1>1 DEF OpToRel
<1> QED
  BY <1>2

\* Induction, for a set: what holds at 0 and goes from each number to the next holds of
\* all.  (The library's induction theorem is about an operator.)
LEMMA SetInduction ==
  ASSUME NEW S, 0 \in S, \A n \in Nat : n \in S => n + 1 \in S
  PROVE  \A n \in Nat : n \in S
<1> SUFFICES ASSUME \E n \in Nat : n \notin S PROVE FALSE
  OBVIOUS
<1> DEFINE T == {n \in Nat : n \notin S}
<1>1. PICK x \in T : \A y \in T : x <= y
  BY Least
<1>2. x # 0 /\ x - 1 \in Nat /\ x - 1 \notin T
  BY <1>1
<1>3. (x - 1) + 1 \in S
  BY <1>2
<1> QED
  BY <1>1, <1>3

-----------------------------------------------------------------------------
(* The invariant.                                                           *)

IsSeq(q) == Len(q) \in Nat /\ q = [i \in 1..Len(q) |-> q[i]]

\* A block of a file, and a control block.
IsBlock(b) == b = [x \in 1..BlockSize |-> b[x]]
Fcb == [alloc : BOOLEAN, size : 0..MaxSize, uid : Range(Uid) \cup {0}, mode : Modes \cup {{}}]

\* The blocks of a file have v in its cell x.
Holds(blocks, x, v) ==
  /\ (x \div BlockSize) + 1 \in 1..Len(blocks)
  /\ blocks[(x \div BlockSize) + 1][(x % BlockSize) + 1] = v

\* The block server st: the blocks of the files, and those of the array.
StoreOK(st) ==
  /\ st = [f \in File |-> st[f]]
  /\ \A f \in File : IsSeq(st[f])
  /\ \A f \in Number : \A i \in 1..Len(st[f]) : IsBlock(st[f][i])
  /\ \A i \in 1..Len(st[0]) : i <= NBlocks0 => st[0][i] \in [0..FcbsPerBlock - 1 -> Fcb]

\* What is known (ex) of the files is so.
Known(st, ex) ==
  /\ ex = [f \in File |-> ex[f]]
  /\ \A f \in Number : \A x \in Cell : ex[f][x] # Unknown => Holds(st[f], x, ex[f][x])

\* A request that a client can make.
IsRequest(r) ==
  /\ r.client \in Clients /\ r.uid \in Range(Uid)
  /\ r.op \in {"create", "delete", "stat", "sync", "chown", "chmod", "read", "write", "setsize"}
  /\ r.op \in {"create", "chmod"} => r.mode \in Modes
  /\ r.op \in {"stat", "chown", "chmod", "read", "write", "setsize"} => r.file \in Number
  /\ r.op = "delete" => r.file \in Number \cup {NFcbs}
  /\ r.op = "chown" => r.owner \in Range(Uid)
  /\ r.op = "read" => r.offset \in Nat /\ r.size \in Nat
  /\ r.op = "write" => r.offset \in Nat /\ r.text \in Texts /\ r.offset + Len(r.text) <= MaxSize
  /\ r.op = "setsize" => r.size \in Nat

\* The writing of blocks of the array, without a hole.  (If the array is one block, only that.)
FlushOK(s, st) ==
  /\ s.at \in 0..Len(st[0]) /\ s.count \in Nat
  /\ NBlocks0 = 1 => s.at + s.count <= 1

\* It writes the block of the control block of file f.
Covers(s, f) ==
  /\ s.do = "flush"
  /\ s.at <= f \div FcbsPerBlock /\ f \div FcbsPerBlock < s.at + s.count

\* Step s of a job.
StepOK(s, st) ==
  /\ s.do \in {"boot", "update", "write", "flush", "setsize", "reply"}
  /\ s.do = "update"  => s.file \in Number /\ s.fcb \in Fcb
  /\ s.do = "write"   => s.ino \in Number /\ s.at \in Nat /\ IsBlock(s.block)
  /\ s.do = "flush"   => FlushOK(s, st)
  /\ s.do = "setsize" => s.ino \in Number /\ s.size \in Nat
  /\ s.do = "reply"   => IsRequest(s.to)

\* The answer s to a read has no cell that is known to be something else.
AnswerOK(s, ex) ==
  s.do = "reply" /\ s.to.op = "read" /\ s.status = Ok =>
    \A x \in DOMAIN s.data :
      ex[s.to.file][s.to.offset + x - 1] \in {Unknown, s.data[x]}

\* The first k steps of job q write v to cell x, or leave it and it is there.
WillHold(q, k, blocks, x, v) ==
  \/ \E j \in 1..k : /\ q[j].do = "write" /\ q[j].at = x \div BlockSize
                     /\ q[j].block[(x % BlockSize) + 1] = v
  \/ /\ \A j \in 1..k : q[j].do = "write" => q[j].at # x \div BlockSize
     /\ Holds(blocks, x, v)

\* When step i of job q, an update, is made, what it then says is known is so.
UpdateOK(q, i, st) ==
  q[i].do = "update" =>
    /\ \A x \in Cell : q[i].cells[x] # Unknown =>
         /\ WillHold(q, i - 1, st[q[i].file], x, q[i].cells[x])
         /\ \A j \in 1..i - 1 : q[j].do = "setsize" => q[j].size # 0
    /\ \A j \in 1..Len(q) : q[j].do \in {"write", "setsize"} => q[j].ino = q[i].file

\* Step i of a job: what a job writes, it writes once, it ends with an answer, and a control block
\* that is changed is written next.
PlaceOK(q, i, st, ex) ==
  /\ StepOK(q[i], st)
  /\ AnswerOK(q[i], ex)
  /\ UpdateOK(q, i, st)
  /\ q[i].do = "boot" => Len(q) = 1
  /\ q[i].do = "update" => i + 1 \in 1..Len(q) /\ Covers(q[i + 1], q[i].file)
  /\ q[i].do = "reply" /\ q[i].to.op = "read" => Len(q) = 1
  /\ q[i].do \in {"write", "setsize"} => q[Len(q)].do = "reply" /\ i # Len(q)
  /\ \A j \in 1..Len(q) :
       i # j /\ q[i].do = "write" /\ q[j].do = "write" => q[i].at # q[j].at

JobOK(q, st, ex) == IsSeq(q) /\ \A i \in 1..Len(q) : PlaceOK(q, i, st, ex)

\* The array is complete except while it is made.
ArrayThere(q, st) ==
  \/ Len(st[0]) >= NBlocks0
  \/ Len(q) = 1 /\ q[1].do = "boot"
  \/ Len(q) = 1 /\ q[1].do = "flush" /\ q[1].at + q[1].count = NBlocks0

ReadInv ==
  /\ StoreOK(store)
  /\ Known(store, expect)
  /\ fcb \in [File -> Fcb]
  /\ IsSeq(queue) /\ \A i \in 1..Len(queue) : IsRequest(queue[i])
  /\ JobOK(job, store, expect)
  /\ ArrayThere(job, store)

\* The array has the control block of file f.
InArray(f) ==
  /\ f \div FcbsPerBlock < Len(store[0])
  /\ store[0][(f \div FcbsPerBlock) + 1][f % FcbsPerBlock] = fcb[f]

\* A control block is in the array, or being written to it, or the machine has just started.
SavedInv ==
  /\ \A f \in File : InArray(f) \/ (job # <<>> /\ (Covers(job[1], f) \/ job[1].do = "boot"))
  /\ NBlocks0 = 1 => Len(store[0]) <= 1

-----------------------------------------------------------------------------
(* Sequences and numbers.                                                   *)

LEMMA Sizes ==
  /\ NFcbs \in Nat \ {0} /\ FcbsPerBlock \in Nat \ {0} /\ BlockSize \in Nat \ {0} /\ MaxSize \in Nat
  /\ File = 0..NFcbs - 1 /\ Number = 1..NFcbs - 1 /\ Cell = 0..MaxSize - 1
  /\ Number \subseteq File /\ 0 \in File /\ 0 \notin Number /\ Cell \subseteq Nat
BY SizeAssumption DEF File, Number, Cell

LEMMA SeqIn ==
  ASSUME NEW q, IsSeq(q)
  PROVE  q \in Seq({q[i] : i \in 1..Len(q)}) /\ DOMAIN q = 1..Len(q)
BY DEF IsSeq

LEMMA SeqInWider ==
  ASSUME NEW q, IsSeq(q), NEW S, \A i \in 1..Len(q) : q[i] \in S
  PROVE  q \in Seq(S)
<1>1. Len(q) \in Nat /\ q \in [1..Len(q) -> S]
  BY DEF IsSeq
<1> QED
  BY <1>1

LEMMA SeqIs ==
  ASSUME NEW S, NEW q \in Seq(S)
  PROVE  IsSeq(q)
BY DEF IsSeq

LEMMA MadeIs ==
  ASSUME NEW n \in Nat, NEW q, q = [i \in 1..n |-> q[i]]
  PROVE  IsSeq(q) /\ Len(q) = n
<1>1. q \in [1..n -> {q[i] : i \in 1..n}]
  OBVIOUS
<1>2. q \in Seq({q[i] : i \in 1..n}) /\ Len(q) = n
  BY <1>1
<1> QED
  BY <1>2, SeqIs

LEMMA TailIs ==
  ASSUME NEW q, IsSeq(q), q # <<>>
  PROVE  /\ IsSeq(Tail(q)) /\ Len(Tail(q)) = Len(q) - 1 /\ Len(q) \in Nat \ {0}
         /\ \A i \in 1..Len(q) - 1 : Tail(q)[i] = q[i + 1]
         /\ Head(q) = q[1]
<1>1. PICK S : q \in Seq(S)
  BY SeqIn
<1>2. Tail(q) \in Seq(S) /\ Len(q) \in Nat /\ Len(q) # 0
  BY <1>1
<1>3. Len(Tail(q)) = Len(q) - 1 /\ Head(q) = q[1]
  BY <1>1, <1>2
<1>4. \A i \in 1..Len(q) - 1 : Tail(q)[i] = q[i + 1]
  BY <1>1, <1>2
<1>5. IsSeq(Tail(q))
  BY <1>2, SeqIs
<1> QED
  BY <1>2, <1>3, <1>4, <1>5

LEMMA AppendIs ==
  ASSUME NEW q, IsSeq(q), NEW e
  PROVE  /\ IsSeq(Append(q, e)) /\ Len(Append(q, e)) = Len(q) + 1
         /\ \A i \in 1..Len(q) : Append(q, e)[i] = q[i]
         /\ Append(q, e)[Len(q) + 1] = e
<1> DEFINE S == {q[i] : i \in 1..Len(q)} \cup {e}
<1>1. q \in Seq(S) /\ e \in S
  BY SeqInWider
<1> HIDE DEF S
<1>3. Append(q, e) \in Seq(S)
  BY <1>1
<1>4. IsSeq(Append(q, e))
  BY <1>3, SeqIs
<1> QED
  BY <1>1, <1>4

LEMMA ConcatIs ==
  ASSUME NEW p, NEW q, IsSeq(p), IsSeq(q)
  PROVE  /\ IsSeq(p \o q) /\ Len(p \o q) = Len(p) + Len(q)
         /\ \A i \in 1..Len(p) : (p \o q)[i] = p[i]
         /\ \A i \in 1..Len(q) : (p \o q)[Len(p) + i] = q[i]
<1> DEFINE S == {p[i] : i \in 1..Len(p)} \cup {q[i] : i \in 1..Len(q)}
<1>1. p \in Seq(S) /\ q \in Seq(S)
  BY SeqInWider
<1> HIDE DEF S
<1>2. p \o q \in Seq(S)
  BY <1>1
<1>3. Len(p) \in Nat /\ Len(q) \in Nat
  BY <1>1
<1>4. \A i \in 1..Len(q) : (p \o q)[Len(p) + i] = q[i]
  <2>1. SUFFICES ASSUME NEW i \in 1..Len(q) PROVE (p \o q)[Len(p) + i] = q[i]
    OBVIOUS
  <2>2. Len(p) + i \in 1..Len(p) + Len(q) /\ ~(Len(p) + i <= Len(p)) /\ Len(p) + i - Len(p) = i
    BY <1>3
  <2> QED
    BY <1>1, <1>3, <2>2
<1>5. IsSeq(p \o q)
  BY <1>2, SeqIs
<1> QED
  BY <1>1, <1>3, <1>4, <1>5

LEMMA OneIs ==
  ASSUME NEW a
  PROVE  IsSeq(<<a>>) /\ Len(<<a>>) = 1 /\ <<a>>[1] = a
BY DEF IsSeq
LEMMA TwoIs ==
  ASSUME NEW a, NEW b
  PROVE  IsSeq(<<a, b>>) /\ Len(<<a, b>>) = 2 /\ <<a, b>>[1] = a /\ <<a, b>>[2] = b
BY DEF IsSeq
LEMMA ThreeIs ==
  ASSUME NEW a, NEW b, NEW c
  PROVE  /\ IsSeq(<<a, b, c>>) /\ Len(<<a, b, c>>) = 3
         /\ <<a, b, c>>[1] = a /\ <<a, b, c>>[2] = b /\ <<a, b, c>>[3] = c
BY DEF IsSeq
LEMMA FourIs ==
  ASSUME NEW a, NEW b, NEW c, NEW d
  PROVE  /\ IsSeq(<<a, b, c, d>>) /\ Len(<<a, b, c, d>>) = 4
         /\ <<a, b, c, d>>[1] = a /\ <<a, b, c, d>>[2] = b
         /\ <<a, b, c, d>>[3] = c /\ <<a, b, c, d>>[4] = d
BY DEF IsSeq

\* n elements of q, after the first m.
Slice(d, q, m, n) ==
  IsSeq(d) /\ Len(d) = n /\ \A i \in 1..n : d[i] = q[m + i]

LEMMA SubSeqIs ==
  ASSUME NEW q, IsSeq(q), NEW m \in Nat, NEW n \in Nat, m + n <= Len(q)
  PROVE  Slice(SubSeq(q, m + 1, m + n), q, m, n)
<1>1. PICK S : q \in Seq(S)
  BY SeqIn
<1>2. \A i \in m + 1..m + n : q[i] \in S
  BY <1>1
<1>3. SubSeq(q, m + 1, m + n) \in Seq(S)
  BY <1>1, <1>2
<1>4. Len(SubSeq(q, m + 1, m + n)) = n
  BY <1>1, <1>2
<1>5. \A i \in 1..n : SubSeq(q, m + 1, m + n)[i] = q[m + i]
  BY <1>1, <1>2
<1> QED
  BY <1>3, <1>4, <1>5, SeqIs DEF Slice

-----------------------------------------------------------------------------
(* Places in the blocks of a file.                                         *)

\* Cell k of block q is cell number q * B + k of the file.
LEMMA DivIs ==
  ASSUME NEW B \in Nat \ {0}, NEW q \in Nat, NEW k \in 0..B - 1
  PROVE  (q * B + k) \div B = q /\ (q * B + k) % B = k
<1>1. q * B \in Nat /\ q * B + k \in Nat
  OBVIOUS
<1>2. q * B + k = B * ((q * B + k) \div B) + ((q * B + k) % B)
  BY <1>1
<1> QED
  BY <1>1, <1>2

LEMMA DivOf ==
  ASSUME NEW B \in Nat \ {0}, NEW q \in Nat, NEW k \in 0..B - 1, NEW x, x = q * B + k
  PROVE  x \div B = q /\ x % B = k
BY DivIs

LEMMA DivExists ==
  ASSUME NEW B \in Nat \ {0}, NEW x \in Nat
  PROVE  /\ x \div B \in Nat /\ x % B \in 0..B - 1
         /\ x = (x \div B) * B + (x % B)
OBVIOUS

LEMMA Multiples ==
  ASSUME NEW B \in Nat \ {0}, NEW i \in Nat \ {0}
  PROVE  i * B \in Nat /\ (i - 1) * B \in Nat /\ i * B = (i - 1) * B + B
OBVIOUS

Joined(z, x, y) ==
  /\ IsSeq(z) /\ Len(z) = Len(x) + Len(y)
  /\ \A k \in 1..Len(x) : z[k] = x[k]
  /\ \A k \in 1..Len(y) : z[Len(x) + k] = y[k]

LEMMA ConcatOf ==
  ASSUME NEW x, NEW y, NEW z, IsSeq(x), IsSeq(y), Joined(z, x, y)
  PROVE  x \o y = z
<1>1. PICK c, m, n : c = x \o y /\ m = Len(x) /\ n = Len(y)
  OBVIOUS
<1>2. /\ IsSeq(x \o y) /\ Len(x \o y) = Len(x) + Len(y)
      /\ \A k \in 1..Len(x) : (x \o y)[k] = x[k]
      /\ \A k \in 1..Len(y) : (x \o y)[Len(x) + k] = y[k]
  BY ConcatIs
<1>3. /\ IsSeq(c) /\ Len(c) = m + n /\ m \in Nat /\ n \in Nat
      /\ \A k \in 1..m : c[k] = x[k]
      /\ \A k \in 1..n : c[m + k] = y[k]
  BY <1>1, <1>2 DEF IsSeq
<1>4. /\ IsSeq(z) /\ Len(z) = m + n
      /\ \A k \in 1..m : z[k] = x[k]
      /\ \A k \in 1..n : z[m + k] = y[k]
  BY <1>1 DEF Joined
<1>5. c = [k \in 1..m + n |-> c[k]] /\ z = [k \in 1..m + n |-> z[k]]
  BY <1>3, <1>4 DEF IsSeq
<1>6. ASSUME NEW k \in 1..m + n PROVE c[k] = z[k]
  <2>1. CASE k \in 1..m
    BY <2>1, <1>3, <1>4
  <2>2. CASE k \notin 1..m
    <3>1. PICK j \in 1..n : k = m + j
      <4>1. k - m \in 1..n /\ k = m + (k - m)
        BY <2>2, <1>3
      <4> QED
        BY <4>1
    <3> QED
      BY <3>1, <1>3, <1>4
  <2> QED
    BY <2>1, <2>2
<1> QED
  BY <1>1, <1>5, <1>6

LEMMA ConcatJoined ==
  ASSUME NEW x, NEW y, IsSeq(x), IsSeq(y)
  PROVE  Joined(x \o y, x, y)
BY ConcatIs DEF Joined

\* The blocks of s one after another are its cells.
LEMMA FlattenIs ==
  ASSUME NEW s, IsSeq(s), Len(s) > 0, \A i \in 1..Len(s) : IsBlock(s[i])
  PROVE  /\ IsSeq(FlattenSeq(s)) /\ Len(FlattenSeq(s)) = Len(s) * BlockSize
         /\ \A k \in 1..Len(s) * BlockSize :
              FlattenSeq(s)[k] = s[((k - 1) \div BlockSize) + 1][((k - 1) % BlockSize) + 1]
<1>0. PICK B, n : B = BlockSize /\ n = Len(s)
  OBVIOUS
<1>1. B \in Nat \ {0} /\ n \in Nat \ {0}
  BY <1>0, Sizes DEF IsSeq
<1> DEFINE F(i) == [k \in 1..i * B |-> s[((k - 1) \div B) + 1][((k - 1) % B) + 1]]
           P(f) == f = [i \in 1..n |-> IF i = 1 THEN s[i] ELSE f[i - 1] \o s[i]]
           a == [i \in 1..n |-> F(i)]
<1>2. ASSUME NEW i \in 1..n PROVE IsSeq(F(i)) /\ Len(F(i)) = i * B
  BY <1>1, Multiples, MadeIs
<1>3. ASSUME NEW i \in 1..n PROVE IsSeq(s[i]) /\ Len(s[i]) = B
  BY <1>0, <1>1, MadeIs DEF IsBlock
<1>4. ASSUME NEW i \in 1..n, NEW q, q = i - 1, NEW j \in 1..B
      PROVE  F(i)[q * B + j] = s[i][j]
  <2>1. q \in Nat /\ q * B + j \in 1..i * B /\ q * B \in Nat
    BY <1>1, <1>4, Multiples
  <2>2. PICK k \in 1..i * B, m \in Nat : k = m + j /\ m = q * B
    BY <2>1
  <2>3. PICK y : y = k - 1
    OBVIOUS
  <2>4. y = m + (j - 1)
    BY <1>1, <2>2, <2>3
  <2>5. PICK r \in 0..B - 1 : r = j - 1 /\ y = m + r
    BY <1>1, <2>4
  <2>6. y \div B = q /\ y % B = j - 1
    <3> HIDE DEF F
    <3>1. y = q * B + r
      BY <2>2, <2>5
    <3>2. B \in Nat \ {0} /\ q \in Nat
      BY <1>1, <2>1
    <3>3. y \div B = q /\ y % B = r
      BY <3>1, <3>2, DivOf, Zenon
    <3> QED
      BY <2>5, <3>3
  <2> QED
    BY <1>1, <1>4, <2>2, <2>3, <2>6
<1>5. ASSUME NEW i \in 1..n, i # 1 PROVE F(i - 1) \o s[i] = F(i)
  <2>1. PICK q, m, p : q = i - 1 /\ m = q * B /\ p = i * B
    OBVIOUS
  <2>2. q \in 1..n /\ p = m + B /\ m \in Nat /\ p \in Nat
    BY <1>1, <1>5, <2>1, Multiples
  <2>3. IsSeq(F(q)) /\ Len(F(q)) = m /\ IsSeq(s[i]) /\ Len(s[i]) = B
    BY <1>2, <1>3, <2>1, <2>2
  <2>4. F(i) = [k \in 1..p |-> s[((k - 1) \div B) + 1][((k - 1) % B) + 1]]
    BY <2>1
  <2>5. F(q) = [k \in 1..m |-> s[((k - 1) \div B) + 1][((k - 1) % B) + 1]]
    BY <2>1
  <2>6. \A j \in 1..B : F(i)[m + j] = s[i][j]
    BY <1>4, <2>1
  <2>7. PICK x, y, z : x = F(q) /\ y = s[i] /\ z = F(i)
    OBVIOUS
  <2>10. \A j \in 1..B : z[m + j] = y[j]
    BY <2>6, <2>7
  <2> HIDE DEF F
  <2>9. \A k \in 1..m : z[k] = x[k]
    <3>1. z = [k \in 1..p |-> s[((k - 1) \div B) + 1][((k - 1) % B) + 1]]
      BY <2>4, <2>7
    <3>2. x = [k \in 1..m |-> s[((k - 1) \div B) + 1][((k - 1) % B) + 1]]
      BY <2>5, <2>7
    <3>3. \A k \in 1..m : k \in 1..p
      BY <2>2, <1>1
    <3> QED
      BY <3>1, <3>2, <3>3, Zenon
  <2>8. IsSeq(x) /\ Len(x) = m /\ IsSeq(y) /\ Len(y) = B /\ IsSeq(z) /\ Len(z) = m + B
    <3>1. IsSeq(F(i)) /\ Len(F(i)) = i * B
      BY <1>2
    <3> QED
      BY <2>1, <2>2, <2>3, <2>7, <3>1
  <2>11. Joined(z, x, y)
    BY <2>8, <2>9, <2>10 DEF Joined
  <2>12. x \o y = z
    BY <2>8, <2>11, ConcatOf
  <2> QED
    BY <2>12, <2>7, <2>1
<1>6. F(1) = s[1]
  <2>1. 1 * B = B
    BY <1>1
  <2>2. \A j \in 1..B : F(1)[j] = s[1][j]
    <3>1. \A j \in 1..B : F(1)[0 * B + j] = s[1][j]
      <4> HIDE DEF F
      <4>1. 1 \in 1..n /\ 0 = 1 - 1
        BY <1>1
      <4>2. \A q : \A i \in 1..n : q = i - 1 => \A j \in 1..B : F(i)[q * B + j] = s[i][j]
        BY <1>4
      <4> QED
        BY <4>1, <4>2
    <3> HIDE DEF F
    <3>2. \A j \in 1..B : 0 * B + j = j
      BY <1>1
    <3> QED
      BY <3>1, <3>2
  <2>3. F(1) = [k \in 1..B |-> F(1)[k]] /\ s[1] = [k \in 1..B |-> s[1][k]]
    BY <2>1, <1>0, <1>1 DEF IsBlock
  <2> HIDE DEF F
  <2> QED
    BY <2>2, <2>3
<1> HIDE DEF F
<1>7. P(a)
  <2>1. ASSUME NEW i \in 1..n PROVE a[i] = IF i = 1 THEN s[i] ELSE a[i - 1] \o s[i]
    <3>1. CASE i = 1
      BY <3>1, <1>6
    <3>2. CASE i # 1
      <4>1. i - 1 \in 1..n
        BY <3>2, <1>1
      <4> QED
        BY <4>1, <3>2, <1>5
    <3> QED
      BY <3>1, <3>2
  <2> QED
    BY <2>1
<1>8. ASSUME NEW f, P(f) PROVE f = a
  <2>1. \A i \in 1..n : f[i] = IF i = 1 THEN s[i] ELSE f[i - 1] \o s[i]
    BY <1>8
  <2>2. \A i \in 1..n : a[i] = IF i = 1 THEN s[i] ELSE a[i - 1] \o s[i]
    BY <1>7
  <2>3. f = [i \in 1..n |-> f[i]] /\ a = [i \in 1..n |-> a[i]]
    BY <1>8
  <2> DEFINE S == {m \in Nat : \A i \in 1..n : i <= m => f[i] = a[i]}
  <2> HIDE DEF a, P
  <2>4. 0 \in S
    BY <1>1
  <2>5. ASSUME NEW m \in Nat, m \in S PROVE m + 1 \in S
    <3>1. SUFFICES ASSUME m + 1 \in 1..n PROVE f[m + 1] = a[m + 1]
      BY <1>1, <2>5
    <3>2. CASE m = 0
      BY <3>1, <3>2, <2>1, <2>2
    <3>3. CASE m # 0
      <4>1. m \in 1..n /\ f[m] = a[m] /\ (m + 1) - 1 = m /\ m + 1 # 1
        BY <1>1, <2>5, <3>1, <3>3
      <4>2. f[m + 1] = f[m] \o s[m + 1] /\ a[m + 1] = a[m] \o s[m + 1]
        BY <3>1, <4>1, <2>1, <2>2
      <4> QED
        BY <4>1, <4>2
    <3> QED
      BY <3>2, <3>3
  <2> HIDE DEF S
  <2>6. \A m \in Nat : m \in S
    BY <2>4, <2>5, SetInduction
  <2>7. n \in S
    BY <2>6, <1>1
  <2>8. \A i \in 1..n : f[i] = a[i]
    BY <2>7, <1>1 DEF S
  <2> QED
    BY <2>3, <2>8
<1>9. FlattenSeq(s) = a[n]
  <2> HIDE DEF P, a
  <2>1. (CHOOSE f : P(f)) = a
    BY <1>7, <1>8
  <2>2. FlattenSeq(s) = (CHOOSE f : P(f))[n]
    BY <1>0, <1>1 DEF FlattenSeq, P
  <2> QED
    BY <2>1, <2>2
<1>10. FlattenSeq(s) = F(n)
  BY <1>1, <1>9
<1>11. IsSeq(F(n)) /\ Len(F(n)) = n * B
  BY <1>1, <1>2
<1>12. \A k \in 1..n * B : F(n)[k] = s[((k - 1) \div B) + 1][((k - 1) % B) + 1]
  BY DEF F
<1> QED
  BY <1>0, <1>10, <1>11, <1>12

-----------------------------------------------------------------------------
(* Requests.                                                                *)

LEMMA RequestIs ==
  ASSUME NEW c \in Clients, NEW r \in Requests(c),
         r.op = "write" => r.offset + Len(r.text) <= MaxSize
  PROVE  IsRequest(r)
<1>1. r.uid \in Range(Uid)
  BY UidAssumption DEF Requests, Range
<1>2. r.client = c
  BY DEF Requests
<1>3. \/ r.op = "create" /\ r.mode \in Modes
      \/ r.op = "delete" /\ r.file \in Number \cup {NFcbs}
      \/ r.op = "stat" /\ r.file \in Number
      \/ r.op = "sync"
      \/ r.op = "chown" /\ r.file \in Number /\ r.owner \in Range(Uid)
      \/ r.op = "chmod" /\ r.file \in Number /\ r.mode \in Modes
      \/ r.op = "read" /\ r.file \in Number /\ r.offset \in Cell /\ r.size = BlockSize
      \/ r.op = "read" /\ r.file \in Number /\ r.offset = 0 /\ r.size = 0
      \/ r.op = "write" /\ r.file \in Number /\ r.offset \in Cell /\ r.text \in Texts
      \/ r.op = "setsize" /\ r.file \in Number /\ r.size \in {0, BlockSize}
  BY DEF Requests
<1>4. BlockSize \in Nat /\ \A x \in Cell : x \in Nat
  BY Sizes
<1>5. /\ r.op = "read" => r.offset \in Nat /\ r.size \in Nat
      /\ r.op = "write" => r.offset \in Nat
      /\ r.op = "setsize" => r.size \in Nat
  BY <1>3, <1>4
<1> QED
  BY <1>1, <1>2, <1>3, <1>5 DEF IsRequest

-----------------------------------------------------------------------------
(* Jobs.                                                                    *)

LEMMA OneStepOK ==
  ASSUME NEW s, NEW st, NEW ex, StepOK(s, st), AnswerOK(s, ex),
         s.do \notin {"write", "setsize", "update"}
  PROVE  JobOK(<<s>>, st, ex)
<1>1. PICK q : q = <<s>>
  OBVIOUS
<1>2. IsSeq(q) /\ Len(q) = 1 /\ q[1] = s
  BY <1>1, OneIs
<1>3. UpdateOK(q, 1, st)
  BY <1>2 DEF UpdateOK
<1>4. PlaceOK(q, 1, st, ex)
  BY <1>2, <1>3 DEF PlaceOK
<1> QED
  BY <1>1, <1>2, <1>4 DEF JobOK

LEMMA RefusedOK ==
  ASSUME NEW r, IsRequest(r), NEW st, NEW ex
  PROVE  JobOK(Refused(r), st, ex)
<1>1. PICK s : s = Reply(r, Error, <<>>)
  OBVIOUS
<1>2. s.do = "reply" /\ s.to = r /\ s.status # Ok
  BY <1>1 DEF Reply, Error, Ok
<1>3. StepOK(s, st) /\ AnswerOK(s, ex)
  BY <1>2 DEF StepOK, AnswerOK
<1>4. JobOK(<<s>>, st, ex)
  BY <1>2, <1>3, OneStepOK
<1> QED
  BY <1>1, <1>4 DEF Refused

LEMMA AnsweredOK ==
  ASSUME NEW r, IsRequest(r), NEW st, NEW ex, NEW d,
         r.op = "read" => \A x \in DOMAIN d : ex[r.file][r.offset + x - 1] \in {Unknown, d[x]}
  PROVE  JobOK(<<Reply(r, Ok, d)>>, st, ex)
<1>1. PICK s : s = Reply(r, Ok, d)
  OBVIOUS
<1>2. s.do = "reply" /\ s.to = r /\ s.data = d
  BY <1>1 DEF Reply
<1>3. StepOK(s, st)
  BY <1>2 DEF StepOK
<1>4. AnswerOK(s, ex)
  BY <1>2 DEF AnswerOK
<1>5. JobOK(<<s>>, st, ex)
  BY <1>2, <1>3, <1>4, OneStepOK
<1> QED
  BY <1>1, <1>5

\* A job that changes file f: n steps on its blocks, then its control block.
Change(q, n, f, st) ==
  /\ IsSeq(q) /\ Len(q) = n + 3
  /\ \A i \in 1..n : q[i].do \in {"write", "setsize"} /\ q[i].ino = f /\ StepOK(q[i], st)
  /\ \A i, j \in 1..n :
       i # j /\ q[i].do = "write" /\ q[j].do = "write" => q[i].at # q[j].at
  /\ q[n + 1].do = "update" /\ q[n + 1].file = f /\ q[n + 1].fcb \in Fcb
  /\ \A x \in Cell : q[n + 1].cells[x] # Unknown =>
       /\ WillHold(q, n, st[f], x, q[n + 1].cells[x])
       /\ \A j \in 1..n : q[j].do = "setsize" => q[j].size # 0
  /\ q[n + 2].do = "flush" /\ FlushOK(q[n + 2], st) /\ Covers(q[n + 2], f)
  /\ q[n + 3].do = "reply" /\ IsRequest(q[n + 3].to) /\ q[n + 3].to.op # "read"

LEMMA ChangeOK ==
  ASSUME NEW q, NEW n \in Nat, NEW f \in Number, NEW st, NEW ex, Change(q, n, f, st)
  PROVE  JobOK(q, st, ex)
<1>1. IsSeq(q) /\ Len(q) = n + 3 /\ Len(q) \in Nat
  BY DEF Change
<1>2. ASSUME NEW i \in 1..n PROVE PlaceOK(q, i, st, ex)
  <2>1. q[i].do \in {"write", "setsize"} /\ StepOK(q[i], st) /\ i # Len(q)
    BY <1>1 DEF Change
  <2>2. AnswerOK(q[i], ex) /\ UpdateOK(q, i, st)
    BY <2>1 DEF AnswerOK, UpdateOK
  <2>3. q[Len(q)].do = "reply"
    BY <1>1 DEF Change
  <2>4. ASSUME NEW j \in 1..Len(q), i # j, q[i].do = "write", q[j].do = "write"
        PROVE  q[i].at # q[j].at
    <3>1. j \in 1..n
      <4>1. j # n + 1 /\ j # n + 2 /\ j # n + 3
        BY <2>4 DEF Change
      <4> QED
        BY <1>1, <4>1
    <3> QED
      BY <3>1, <2>4 DEF Change
  <2> QED
    BY <2>1, <2>2, <2>3, <2>4 DEF PlaceOK
<1>3. PlaceOK(q, n + 1, st, ex)
  <2>1. PICK k, u : k = n + 1 /\ u = q[k]
    OBVIOUS
  <2>2. u.do = "update" /\ u.file = f /\ u.fcb \in Fcb /\ k - 1 = n
    BY <2>1 DEF Change
  <2>3. \A j \in 1..Len(q) : q[j].do \in {"write", "setsize"} => q[j].ino = f
    <3>1. SUFFICES ASSUME NEW j \in 1..Len(q), q[j].do \in {"write", "setsize"} PROVE q[j].ino = f
      OBVIOUS
    <3>2. j # n + 1 /\ j # n + 2 /\ j # n + 3
      BY <3>1 DEF Change
    <3>3. j \in 1..n
      BY <1>1, <3>2
    <3> QED
      BY <3>3 DEF Change
  <2>4. \A x \in Cell : u.cells[x] # Unknown =>
          /\ WillHold(q, k - 1, st[f], x, u.cells[x])
          /\ \A j \in 1..k - 1 : q[j].do = "setsize" => q[j].size # 0
    BY <2>1, <2>2 DEF Change
  <2>5. UpdateOK(q, k, st)
    BY <2>1, <2>2, <2>3, <2>4 DEF UpdateOK
  <2>6. StepOK(u, st) /\ AnswerOK(u, ex)
    BY <2>2 DEF StepOK, AnswerOK
  <2>7. k + 1 = n + 2 /\ k + 1 \in 1..Len(q)
    BY <2>1, <1>1
  <2>8. Covers(q[k + 1], f)
    BY <2>7 DEF Change
  <2> QED
    BY <2>1, <2>2, <2>5, <2>6, <2>7, <2>8 DEF PlaceOK
<1>4. PlaceOK(q, n + 2, st, ex)
  <2>1. PICK k, u : k = n + 2 /\ u = q[k]
    OBVIOUS
  <2>2. u.do = "flush" /\ FlushOK(u, st)
    BY <2>1 DEF Change
  <2>3. StepOK(u, st) /\ AnswerOK(u, ex) /\ UpdateOK(q, k, st)
    BY <2>1, <2>2 DEF StepOK, AnswerOK, UpdateOK
  <2> QED
    BY <2>1, <2>2, <2>3 DEF PlaceOK
<1>5. PlaceOK(q, n + 3, st, ex)
  <2>1. PICK k, u : k = n + 3 /\ u = q[k]
    OBVIOUS
  <2>2. u.do = "reply" /\ IsRequest(u.to) /\ u.to.op # "read"
    BY <2>1 DEF Change
  <2>3. StepOK(u, st) /\ AnswerOK(u, ex) /\ UpdateOK(q, k, st)
    BY <2>1, <2>2 DEF StepOK, AnswerOK, UpdateOK
  <2> QED
    BY <2>1, <2>2, <2>3 DEF PlaceOK
<1>6. ASSUME NEW i \in 1..Len(q) PROVE PlaceOK(q, i, st, ex)
  <2>1. i \in 1..n \/ i = n + 1 \/ i = n + 2 \/ i = n + 3
    BY <1>1
  <2> QED
    BY <2>1, <1>2, <1>3, <1>4, <1>5
<1> QED
  BY <1>1, <1>6 DEF JobOK

LEMMA DivPick ==
  ASSUME NEW B \in Nat \ {0}, NEW x \in Nat
  PROVE  \E q \in Nat : \E k \in 0..B - 1 : q = x \div B /\ k = x % B /\ x = q * B + k
<1>1. x \div B \in Nat /\ x % B \in 0..B - 1 /\ x = (x \div B) * B + (x % B)
  BY DivExists
<1> QED
  BY <1>1, Zenon

LEMMA TimesNat ==
  ASSUME NEW B \in Nat, NEW p \in Nat, NEW q \in Nat
  PROVE  p * B \in Nat /\ q * B \in Nat /\ (p + q) * B = p * B + q * B
OBVIOUS

LEMMA DivMono ==
  ASSUME NEW B \in Nat \ {0}, NEW x \in Nat, NEW y \in Nat, x <= y
  PROVE  x \div B <= y \div B
<1>0. /\ x \div B \in Nat /\ x % B \in 0..B - 1 /\ x = (x \div B) * B + (x % B)
      /\ y \div B \in Nat /\ y % B \in 0..B - 1 /\ y = (y \div B) * B + (y % B)
  BY DivExists
<1>1. PICK p \in Nat, q \in Nat, k \in 0..B - 1, l \in 0..B - 1 :
        p = x \div B /\ q = y \div B /\ x = p * B + k /\ y = q * B + l
  BY <1>0, Zenon
<1>2. p <= q
  <2>1. SUFFICES ASSUME p >= q + 1 PROVE FALSE
    BY <1>1
  <2>2. p * B >= (q + 1) * B
    BY <2>1, <1>1
  <2>3. (q + 1) * B = q * B + B /\ q * B \in Nat /\ p * B \in Nat
    BY <1>1
  <2> QED
    BY <2>2, <2>3, <1>1
<1> QED
  BY <1>1, <1>2

LEMMA BlocksOfArray ==
  /\ NBlocks0 \in Nat \ {0}
  /\ \A f \in File : f \div FcbsPerBlock \in 0..NBlocks0 - 1 /\ f % FcbsPerBlock \in 0..FcbsPerBlock - 1
<1>1. NFcbs - 1 \in Nat /\ FcbsPerBlock \in Nat \ {0}
  BY Sizes
<1>2. PICK m : m = (NFcbs - 1) \div FcbsPerBlock
  OBVIOUS
<1>3. m \in Nat /\ NBlocks0 = m + 1
  BY <1>1, <1>2, DivExists DEF NBlocks0
<1>4. ASSUME NEW f \in File
      PROVE  f \div FcbsPerBlock \in 0..m /\ f % FcbsPerBlock \in 0..FcbsPerBlock - 1
  <2>1. f \in Nat /\ f <= NFcbs - 1
    BY Sizes
  <2>2. f \div FcbsPerBlock <= m
    BY <2>1, <1>1, <1>2, DivMono
  <2>3. f \div FcbsPerBlock \in Nat /\ f % FcbsPerBlock \in 0..FcbsPerBlock - 1
    BY <2>1, <1>1, DivExists
  <2>4. PICK k \in Nat : k = f \div FcbsPerBlock
    BY <2>3
  <2>5. k \in 0..m
    BY <2>2, <2>4, <1>3
  <2> QED
    BY <2>3, <2>4, <2>5
<1> QED
  BY <1>3, <1>4

LEMMA FlushFcbOK ==
  ASSUME NEW f \in File, Len(store[0]) \in Nat, Len(store[0]) >= NBlocks0
  PROVE  FlushFcb(f).do = "flush" /\ FlushOK(FlushFcb(f), store) /\ Covers(FlushFcb(f), f)
<1>1. PICK k, s : k = f \div FcbsPerBlock /\ s = FlushFcb(f)
  OBVIOUS
<1>2. k \in 0..NBlocks0 - 1 /\ NBlocks0 \in Nat
  BY <1>1, BlocksOfArray
<1>3. s = [do |-> "flush", at |-> k, count |-> k + 1]
  BY <1>1 DEF FlushFcb, Flush
<1>4. s.do = "flush" /\ s.at = k /\ s.count = k + 1
  BY <1>3
<1>5. FlushOK(s, store)
  BY <1>2, <1>4 DEF FlushOK
<1>6. Covers(s, f)
  BY <1>1, <1>2, <1>4 DEF Covers
<1> QED
  BY <1>1, <1>4, <1>5, <1>6

\* What is known already is so after an update that does not change what is known.
LEMMA SimpleOK ==
  ASSUME Known(store, expect), Len(store[0]) \in Nat, Len(store[0]) >= NBlocks0,
         NEW f \in Number, NEW c \in Fcb, NEW r, IsRequest(r), r.op # "read"
  PROVE  JobOK(<<Update(f, c), FlushFcb(f), Reply(r, Ok, <<>>)>>, store, expect)
<1>1. PICK u, v, w, q : u = Update(f, c) /\ v = FlushFcb(f) /\ w = Reply(r, Ok, <<>>) /\ q = <<u, v, w>>
  OBVIOUS
<1>2. IsSeq(q) /\ Len(q) = 3 /\ q[1] = u /\ q[2] = v /\ q[3] = w
  BY <1>1, ThreeIs
<1>3. u.do = "update" /\ u.file = f /\ u.fcb = c /\ u.cells = expect[f]
  BY <1>1 DEF Update
<1>4. w.do = "reply" /\ w.to = r
  BY <1>1 DEF Reply
<1>5. v.do = "flush" /\ FlushOK(v, store) /\ Covers(v, f)
  BY <1>1, FlushFcbOK, Sizes
<1>6. \A x \in Cell : u.cells[x] # Unknown => WillHold(q, 0, store[f], x, u.cells[x])
  BY <1>3 DEF WillHold, Known
<1>7. Change(q, 0, f, store)
  BY <1>2, <1>3, <1>4, <1>5, <1>6 DEF Change
<1>8. JobOK(q, store, expect)
  BY <1>7, ChangeOK
<1> QED
  BY <1>1, <1>8

\* What Receive finds.
Ready ==
  /\ StoreOK(store) /\ Known(store, expect) /\ fcb \in [File -> Fcb]
  /\ Len(store[0]) \in Nat /\ Len(store[0]) >= NBlocks0

LEMMA FcbParts ==
  ASSUME Ready, NEW f \in File
  PROVE  /\ fcb[f] \in Fcb /\ fcb[f].size \in 0..MaxSize
         /\ \A a \in BOOLEAN : [fcb[f] EXCEPT !.alloc = a] \in Fcb
         /\ \A n \in 0..MaxSize : [fcb[f] EXCEPT !.size = n] \in Fcb
         /\ \A u \in Range(Uid) : [fcb[f] EXCEPT !.uid = u] \in Fcb
         /\ \A m \in Modes : [fcb[f] EXCEPT !.mode = m] \in Fcb
         /\ \A u \in Range(Uid) : \A m \in Modes :
              [fcb[f] EXCEPT !.alloc = TRUE, !.uid = u, !.mode = m] \in Fcb
<1>1. PICK c \in Fcb : c = fcb[f]
  BY DEF Ready
<1> QED
  BY <1>1 DEF Fcb

LEMMA CreateOK ==
  ASSUME Ready, NEW r, IsRequest(r), r.op = "create"
  PROVE  JobOK(Create(r), store, expect)
<1> DEFINE free == {f \in File \ {0} : ~fcb[f].alloc}
<1>1. CASE free = {}
  BY <1>1, RefusedOK DEF Create
<1>2. CASE free # {}
  <2>1. free \in SUBSET Nat
    BY Sizes
  <2>2. Min(free) \in free
    <3>1. \E x \in free : \A y \in free : x <= y
      BY <1>2, <2>1, Least
    <3> QED
      BY <3>1 DEF Min
  <2>3. PICK f \in Number : f = Min(free)
    <3>1. Min(free) \in File \ {0}
      BY <2>2
    <3>2. Min(free) \in Number
      <4>1. PICK x : x = Min(free)
        OBVIOUS
      <4> QED
        BY <3>1, <4>1, Sizes
    <3> QED
      BY <3>2
  <2>4. PICK c : c = [fcb[f] EXCEPT !.alloc = TRUE, !.uid = r.uid, !.mode = r.mode]
    OBVIOUS
  <2>5. c \in Fcb
    BY <2>4, FcbParts, Sizes DEF IsRequest
  <2>6. Create(r) = <<Update(f, c), FlushFcb(f), Reply(r, Ok, <<>>)>>
    BY <1>2, <2>3, <2>4 DEF Create
  <2>7. JobOK(<<Update(f, c), FlushFcb(f), Reply(r, Ok, <<>>)>>, store, expect)
    BY <2>5, SimpleOK DEF Ready
  <2> QED
    BY <2>6, <2>7
<1> QED
  BY <1>1, <1>2

LEMMA ChownOK ==
  ASSUME Ready, NEW r, IsRequest(r), r.op = "chown"
  PROVE  JobOK(Chown(r), store, expect)
<1>1. CASE ~Exists(r) \/ r.uid # 0
  BY <1>1, RefusedOK DEF Chown
<1>2. CASE ~(~Exists(r) \/ r.uid # 0)
  <2>1. PICK f, c : f \in Number /\ f = r.file /\ c = [fcb[f] EXCEPT !.uid = r.owner]
    BY DEF IsRequest
  <2>2. c \in Fcb
    BY <2>1, FcbParts, Sizes DEF IsRequest
  <2>3. JobOK(<<Update(f, c), FlushFcb(f), Reply(r, Ok, <<>>)>>, store, expect)
    BY <2>1, <2>2, SimpleOK DEF Ready
  <2> QED
    BY <1>2, <2>1, <2>3 DEF Chown
<1> QED
  BY <1>1, <1>2

LEMMA ChmodOK ==
  ASSUME Ready, NEW r, IsRequest(r), r.op = "chmod"
  PROVE  JobOK(Chmod(r), store, expect)
<1>1. CASE ~Exists(r) \/ r.uid \notin {0, fcb[r.file].uid}
  BY <1>1, RefusedOK DEF Chmod
<1>2. CASE ~(~Exists(r) \/ r.uid \notin {0, fcb[r.file].uid})
  <2>1. PICK f, c : f \in Number /\ f = r.file /\ c = [fcb[f] EXCEPT !.mode = r.mode]
    BY DEF IsRequest
  <2>2. c \in Fcb
    BY <2>1, FcbParts, Sizes DEF IsRequest
  <2>3. JobOK(<<Update(f, c), FlushFcb(f), Reply(r, Ok, <<>>)>>, store, expect)
    BY <2>1, <2>2, SimpleOK DEF Ready
  <2> QED
    BY <1>2, <2>1, <2>3 DEF Chmod
<1> QED
  BY <1>1, <1>2

LEMMA StatOK ==
  ASSUME Ready, NEW r, IsRequest(r), r.op = "stat"
  PROVE  JobOK(Stat(r), store, expect)
<1>1. JobOK(Refused(r), store, expect)
  BY RefusedOK
<1>2. JobOK(<<Reply(r, Ok, <<fcb[r.file].size>>)>>, store, expect)
  BY AnsweredOK
<1> QED
  BY <1>1, <1>2 DEF Stat

LEMMA SyncOK ==
  ASSUME NEW r, IsRequest(r), r.op = "sync"
  PROVE  JobOK(Sync(r), store, expect)
<1>1. JobOK(Refused(r), store, expect)
  BY RefusedOK
<1>2. JobOK(<<Reply(r, Ok, <<>>)>>, store, expect)
  BY AnsweredOK
<1> QED
  BY <1>1, <1>2 DEF Sync

\* n cells from o on are in count blocks, from block first on.
Places(B, o, n, first, skip, count) ==
  /\ first \in Nat /\ skip \in Nat /\ count \in Nat \ {0} /\ skip + n <= count * B
  /\ \A x \in 1..n : /\ (skip + x - 1) \div B \in 0..count - 1
                     /\ (o + x - 1) \div B = first + ((skip + x - 1) \div B)
                     /\ (o + x - 1) % B = (skip + x - 1) % B

LEMMA CellsOfBlocks ==
  ASSUME NEW B \in Nat \ {0}, NEW o \in Nat, NEW n \in Nat \ {0}, NEW first, first = o \div B,
         NEW skip, skip = o % B, NEW count, count = (o + n - 1) \div B - first + 1
  PROVE  Places(B, o, n, first, skip, count)
<1>1. first \in Nat /\ skip \in 0..B - 1 /\ o = first * B + skip
  BY DivExists, Zenon
<1>2. PICK z, e : z \in Nat /\ z = o + n - 1 /\ e = z \div B
  OBVIOUS
<1>3. PICK l \in 0..B - 1 : e \in Nat /\ z = e * B + l
  BY <1>2, DivExists, Zenon
<1>4. o <= z /\ count = e - first + 1
  BY <1>2
<1>5. first <= e
  <2>1. o \div B <= z \div B
    BY <1>2, <1>4, DivMono
  <2> QED
    BY <2>1, <1>2
<1>6. PICK d \in Nat : d = e - first
  <2>1. first \in Nat /\ e \in Nat
    BY <1>1, <1>3
  <2>2. e - first \in Nat
    BY <2>1, <1>5
  <2> QED
    BY <2>2
<1>7. count = d + 1 /\ e = first + d
  BY <1>1, <1>3, <1>4, <1>6
<1>8. e * B = first * B + d * B /\ (d + 1) * B = d * B + B /\ first * B \in Nat /\ d * B \in Nat
  BY <1>1, <1>7
<1>9. skip + n <= (d + 1) * B
  <2>1. PICK p \in Nat, q \in Nat : p = first * B /\ q = d * B
    BY <1>8
  <2>2. z = p + q + l /\ o = p + skip /\ z = o + n - 1
    BY <1>1, <1>2, <1>3, <1>8, <2>1
  <2>3. skip + n <= q + B
    BY <2>2, <2>1, <1>1, <1>3
  <2> QED
    BY <2>1, <2>3, <1>8
<1>10. ASSUME NEW x \in 1..n
       PROVE  /\ (skip + x - 1) \div B \in 0..count - 1
              /\ (o + x - 1) \div B = first + ((skip + x - 1) \div B)
              /\ (o + x - 1) % B = (skip + x - 1) % B
  <2>1. PICK y \in Nat, w \in Nat : y = skip + x - 1 /\ w = o + x - 1
    BY <1>1
  <2>2. PICK q \in Nat : \E k \in 0..B - 1 : q = y \div B /\ k = y % B /\ y = q * B + k
    BY <2>1, DivPick, Zenon
  <2>9. PICK k \in 0..B - 1 : q = y \div B /\ k = y % B /\ y = q * B + k
    BY <2>2
  <2>5. first * B \in Nat /\ q * B \in Nat /\ (first + q) * B = first * B + q * B /\ first + q \in Nat
    BY <1>1, <2>2, TimesNat
  <2>3. PICK p, s, t : p \in Nat /\ s \in Nat /\ p = first * B /\ s = q * B /\ t = (first + q) * B
    BY <2>5, Zenon
  <2>4. w = t + k
    <3>1. y = s + k /\ o = p + skip /\ t = p + s
      BY <1>1, <2>3, <2>5, <2>9, Zenon
    <3> QED
      BY <3>1, <2>1, <2>3, <2>9, <1>1
  <2>6. w = (first + q) * B + k
    BY <2>3, <2>4, Zenon
  <2>7. w \div B = first + q /\ w % B = k
    <3>1. PICK g \in Nat : g = first + q
      BY <2>5
    <3>2. w = g * B + k
      BY <2>6, <3>1
    <3>4. B \in Nat \ {0} /\ g \in Nat /\ k \in 0..B - 1
      BY <3>1, <2>9
    <3>3. w \div B = g /\ w % B = k
      BY <3>2, <3>4, DivOf, Zenon
    <3> QED
      BY <3>1, <3>3
  <2>8. q < count
    <3>1. SUFFICES ASSUME q >= d + 1 PROVE FALSE
      BY <1>7, <2>2
    <3>2. q * B >= (d + 1) * B
      BY <3>1, <2>2, <1>6
    <3>3. y < skip + n
      BY <2>1, <1>1
    <3>4. PICK u \in Nat : u = (d + 1) * B
      BY <1>8
    <3>5. s >= u /\ y = s + k /\ skip + n <= u
      BY <3>2, <3>4, <2>9, <2>3, <1>9
    <3> QED
      BY <3>3, <3>5, <2>3, <2>9, <3>4, <1>1
  <2> QED
    BY <2>1, <2>2, <2>9, <2>7, <2>8, <1>7
<1> QED
  BY <1>1, <1>7, <1>9, <1>10 DEF Places

LEMMA ReadOK ==
  ASSUME Ready, NEW r, IsRequest(r), r.op = "read"
  PROVE  JobOK(Read(r), store, expect)
<1>1. JobOK(Refused(r), store, expect)
  BY RefusedOK
<1>2. JobOK(<<Reply(r, Ok, <<>>)>>, store, expect)
  BY AnsweredOK
<1>3. PICK f \in Number, o \in Nat, size \in 0..MaxSize, B \in Nat \ {0} :
        f = r.file /\ o = r.offset /\ size = fcb[f].size /\ B = BlockSize
  BY FcbParts, Sizes DEF IsRequest
<1>4. PICK n, first, count, skip :
        /\ n = (IF size - o < r.size THEN size - o ELSE r.size)
        /\ first = o \div B /\ count = (o + n - 1) \div B - first + 1 /\ skip = o % B
  OBVIOUS
<1>5. PICK cells : cells = FlattenSeq(SubSeq(store[f], first + 1, first + count))
  OBVIOUS
<1>6. ASSUME n > 0, Readable(f, first, count) = count
      PROVE  JobOK(<<Reply(r, Ok, SubSeq(cells, skip + 1, skip + n))>>, store, expect)
  <2>1. n \in Nat \ {0} /\ o + n <= size
    <3>1. r.size \in Nat
      BY DEF IsRequest
    <3> QED
      BY <1>3, <1>4, <1>6, <3>1
  <2>0. Places(B, o, n, first, skip, count)
    BY <1>3, <1>4, <2>1, CellsOfBlocks
  <2>2. first \in Nat /\ skip \in Nat /\ count \in Nat \ {0} /\ skip + n <= count * B
    BY <2>0 DEF Places
  <2>3. PICK b : b = store[f] /\ IsSeq(b) /\ (\A i \in 1..Len(b) : IsBlock(b[i])) /\ Len(b) \in Nat
    BY Sizes DEF Ready, StoreOK, IsSeq
  <2>4. first + count <= Len(b)
    BY <1>6, <2>2, <2>3 DEF Readable
  <2>5. PICK s : s = SubSeq(b, first + 1, first + count)
    OBVIOUS
  <2>6. IsSeq(s) /\ Len(s) = count /\ \A i \in 1..count : s[i] = b[first + i]
    <3>1. first + count <= Len(b) /\ first \in Nat /\ count \in Nat
      BY <2>2, <2>4
    <3>2. Slice(SubSeq(b, first + 1, first + count), b, first, count)
      BY <2>3, <3>1, SubSeqIs
    <3> QED
      BY <2>5, <3>2 DEF Slice
  <2>7. \A i \in 1..Len(s) : IsBlock(s[i])
    <3>1. \A i \in 1..count : first + i \in 1..Len(b)
      BY <2>2, <2>3, <2>4
    <3> QED
      BY <3>1, <2>3, <2>6
  <2>8. /\ IsSeq(cells) /\ Len(cells) = count * B
        /\ \A k \in 1..count * B : cells[k] = s[((k - 1) \div B) + 1][((k - 1) % B) + 1]
    <3>1. cells = FlattenSeq(s) /\ Len(s) > 0
      BY <1>5, <2>2, <2>3, <2>5, <2>6
    <3> QED
      BY <3>1, <2>6, <2>7, <1>3, FlattenIs
  <2>9. PICK d : d = SubSeq(cells, skip + 1, skip + n)
    OBVIOUS
  <2>10. DOMAIN d = 1..n /\ \A x \in 1..n : d[x] = cells[skip + x]
    <3>1. skip + n <= Len(cells) /\ skip \in Nat /\ n \in Nat
      BY <2>1, <2>2, <2>8
    <3>2. Slice(SubSeq(cells, skip + 1, skip + n), cells, skip, n)
      BY <2>8, <3>1, SubSeqIs
    <3> QED
      BY <2>9, <3>2 DEF Slice, IsSeq
  <2>11. ASSUME NEW x \in 1..n PROVE expect[f][o + x - 1] \in {Unknown, d[x]}
    <3>1. PICK y, k, q, j :
            /\ y \in Cell /\ k \in 1..count * B /\ q \in 0..count - 1
            /\ y = o + x - 1 /\ k = skip + x /\ q = (k - 1) \div B /\ j = (k - 1) % B
      <4>1. PICK c \in Nat : c = count * B
        BY <2>2, <1>3
      <4>2. o + x - 1 \in Cell /\ skip + x \in 1..c
        <5>1. skip \in Nat /\ skip + n <= c
          BY <2>2, <4>1
        <5>2. skip + x \in 1..c
          BY <5>1, <4>1, <2>1
        <5>3. MaxSize \in Nat /\ size <= MaxSize /\ o \in Nat /\ size \in Nat
          BY <1>3, Sizes
        <5>4. o + x - 1 \in 0..MaxSize - 1
          BY <5>3, <2>1
        <5> QED
          BY <5>2, <5>4 DEF Cell
      <4>3. (skip + x - 1) \div B \in 0..count - 1
        BY <2>0 DEF Places
      <4>4. PICK k : k = skip + x
        OBVIOUS
      <4>5. k - 1 = skip + x - 1
        BY <4>4, <2>2
      <4> QED
        BY <4>1, <4>2, <4>3, <4>4, <4>5
    <3>2. k - 1 = skip + x - 1
      BY <3>1, <2>2
    <3>3. y \div B = first + q /\ y % B = j
      BY <3>1, <3>2, <2>0 DEF Places
    <3>4. d[x] = b[first + (q + 1)][j + 1]
      <4>1. d[x] = s[q + 1][j + 1]
        BY <3>1, <2>8, <2>10
      <4>2. q + 1 \in 1..count
        BY <2>2, <3>1
      <4> QED
        BY <4>1, <4>2, <2>6
    <3>5. first + (q + 1) = (first + q) + 1
      BY <2>2, <3>1
    <3>6. expect[f][y] # Unknown => expect[f][y] = d[x]
      <4>1. expect[f][y] # Unknown => Holds(b, y, expect[f][y])
        BY <3>1, <2>3, <1>3 DEF Ready, Known
      <4>2. expect[f][y] # Unknown => b[(y \div B) + 1][(y % B) + 1] = expect[f][y]
        BY <4>1, <1>3 DEF Holds
      <4>3. (y \div B) + 1 = first + (q + 1) /\ (y % B) + 1 = j + 1
        BY <3>3, <3>5
      <4> QED
        BY <4>2, <4>3, <3>4
    <3> QED
      BY <3>1, <3>6
  <2> QED
    BY <2>9, <2>10, <2>11, <1>3, AnsweredOK
<1>7. CASE ~Exists(r) \/ ~ReadAllowed(r.file, r.uid)
  BY <1>1, <1>7 DEF Read
<1>8. CASE ~(~Exists(r) \/ ~ReadAllowed(r.file, r.uid))
  <2>1. Read(r) = IF r.size = 0 \/ n <= 0 THEN <<Reply(r, Ok, <<>>)>>
                  ELSE IF Readable(f, first, count) # count THEN Refused(r)
                  ELSE <<Reply(r, Ok, SubSeq(cells, skip + 1, skip + n))>>
    BY <1>3, <1>4, <1>5, <1>8 DEF Read
  <2>2. n > 0 \/ n <= 0
    BY <1>3, <1>4 DEF IsRequest
  <2> QED
    BY <2>1, <2>2, <1>1, <1>2, <1>6
<1> QED
  BY <1>7, <1>8

LEMMA DeleteOK ==
  ASSUME Ready, NEW r, IsRequest(r), r.op = "delete"
  PROVE  JobOK(Delete(r), store, expect)
<1>1. JobOK(Refused(r), store, expect)
  BY RefusedOK
<1>2. JobOK(<<Reply(r, Ok, <<>>)>>, store, expect)
  BY AnsweredOK
<1>3. ASSUME r.file \in File
      PROVE  JobOK(<<Update(r.file, [fcb[r.file] EXCEPT !.alloc = FALSE]), FlushFcb(r.file),
                     SetSize(r.file, 0), Reply(r, Ok, <<>>)>>, store, expect)
  <2>1. PICK f : f = r.file
    OBVIOUS
  <2>2. f \in Number
    <3>1. NFcbs \notin File /\ f \in File /\ f \in Number \cup {NFcbs}
      BY <2>1, <1>3, Sizes DEF IsRequest
    <3> QED
      BY <3>1
  <2>3. PICK c \in Fcb : c = [fcb[f] EXCEPT !.alloc = FALSE]
    BY <2>2, FcbParts, Sizes
  <2>4. PICK u, v, w, z, q : /\ u = Update(f, c) /\ v = FlushFcb(f) /\ w = SetSize(f, 0)
                             /\ z = Reply(r, Ok, <<>>) /\ q = <<u, v, w, z>>
    OBVIOUS
  <2>5. IsSeq(q) /\ Len(q) = 4 /\ q[1] = u /\ q[2] = v /\ q[3] = w /\ q[4] = z
    BY <2>4, FourIs
  <2>6. u.do = "update" /\ u.file = f /\ u.fcb = c /\ u.cells = expect[f]
    BY <2>4 DEF Update
  <2>7. v.do = "flush" /\ FlushOK(v, store) /\ Covers(v, f)
    BY <2>2, <2>4, FlushFcbOK, Sizes DEF Ready
  <2>8. w.do = "setsize" /\ w.ino = f /\ w.size = 0
    BY <2>4 DEF SetSize
  <2>9. z.do = "reply" /\ z.to = r
    BY <2>4 DEF Reply
  <2>10. PlaceOK(q, 1, store, expect)
    <3>1. \A x \in Cell : u.cells[x] # Unknown => WillHold(q, 0, store[f], x, u.cells[x])
      <4>1. \A x \in Cell : u.cells[x] # Unknown => Holds(store[f], x, u.cells[x])
        BY <2>2, <2>6 DEF Ready, Known
      <4>2. \A j \in 1..0 : q[j].do # "write"
        OBVIOUS
      <4> QED
        BY <4>1, <4>2 DEF WillHold
    <3>2. \A j \in 1..4 : q[j].do \in {"write", "setsize"} => q[j].ino = f
      BY <2>5, <2>6, <2>7, <2>8, <2>9
    <3>3. UpdateOK(q, 1, store)
      BY <2>5, <2>6, <3>1, <3>2 DEF UpdateOK
    <3>4. StepOK(u, store) /\ AnswerOK(u, expect)
      BY <2>2, <2>6 DEF StepOK, AnswerOK
    <3>5. 1 + 1 \in 1..Len(q) /\ Covers(q[1 + 1], q[1].file)
      BY <2>5, <2>6, <2>7
    <3> QED
      BY <2>5, <2>6, <3>3, <3>4, <3>5 DEF PlaceOK
  <2>11. PlaceOK(q, 2, store, expect)
    <3>1. StepOK(v, store) /\ AnswerOK(v, expect) /\ UpdateOK(q, 2, store)
      BY <2>5, <2>7 DEF StepOK, AnswerOK, UpdateOK
    <3> QED
      BY <2>5, <2>7, <3>1 DEF PlaceOK
  <2>12. PlaceOK(q, 3, store, expect)
    <3>1. StepOK(w, store) /\ AnswerOK(w, expect) /\ UpdateOK(q, 3, store)
      BY <2>2, <2>5, <2>8 DEF StepOK, AnswerOK, UpdateOK
    <3> QED
      BY <2>5, <2>8, <2>9, <3>1 DEF PlaceOK
  <2>13. PlaceOK(q, 4, store, expect)
    <3>1. StepOK(z, store) /\ AnswerOK(z, expect) /\ UpdateOK(q, 4, store)
      BY <2>5, <2>9 DEF StepOK, AnswerOK, UpdateOK
    <3> QED
      BY <2>5, <2>9, <3>1 DEF PlaceOK
  <2>14. JobOK(q, store, expect)
    <3>1. \A i \in 1..Len(q) : i = 1 \/ i = 2 \/ i = 3 \/ i = 4
      BY <2>5
    <3> QED
      BY <3>1, <2>5, <2>10, <2>11, <2>12, <2>13 DEF JobOK
  <2> QED
    BY <2>1, <2>3, <2>4, <2>14
<1> QED
  BY <1>1, <1>2, <1>3 DEF Delete

LEMMA SetFileSizeOK ==
  ASSUME Ready, NEW r, IsRequest(r), r.op = "setsize"
  PROVE  JobOK(SetFileSize(r), store, expect)
<1>1. CASE ~Exists(r) \/ r.size > fcb[r.file].size \/ ~WriteAllowed(r.file, r.uid)
  <2>1. JobOK(Refused(r), store, expect)
    BY RefusedOK
  <2> QED
    BY <1>1, <2>1 DEF SetFileSize
<1>2. CASE ~(~Exists(r) \/ r.size > fcb[r.file].size \/ ~WriteAllowed(r.file, r.uid))
  <2>1. PICK f \in Number, n \in Nat : f = r.file /\ n = r.size
    BY DEF IsRequest
  <2>2. PICK c \in Fcb : c = [fcb[f] EXCEPT !.size = n]
    <3>0. fcb[f].size \in 0..MaxSize
      BY FcbParts, Sizes
    <3>1. fcb[f].size \in 0..MaxSize /\ n <= fcb[f].size
      BY <1>2, <2>1, <3>0, Sizes
    <3>2. n \in 0..MaxSize
      BY <3>1, <2>1, Sizes
    <3> QED
      BY <3>2, <2>1, FcbParts, Sizes
  <2>3. PICK k, m : /\ k = (IF n = 0 THEN 0 ELSE 1 + n \div BlockSize)
                    /\ m = [x \in Cell |-> IF x < n THEN expect[f][x] ELSE Unknown]
    OBVIOUS
  <2>4. k \in Nat /\ (n # 0 => k # 0)
    <3>1. BlockSize \in Nat \ {0} /\ n \in Nat
      BY <2>1, Sizes
    <3>2. PICK d \in Nat : d = n \div BlockSize
      BY <3>1, DivExists
    <3> QED
      BY <2>3, <3>2
  <2>5. PICK u, v, w, z, q : /\ u = SetSize(f, k) /\ v = Resize(f, n, m) /\ w = FlushFcb(f)
                             /\ z = Reply(r, Ok, <<>>) /\ q = <<u, v, w, z>>
    OBVIOUS
  <2>6. IsSeq(q) /\ Len(q) = 4 /\ q[1] = u /\ q[2] = v /\ q[3] = w /\ q[4] = z
    BY <2>5, FourIs
  <2>7. u.do = "setsize" /\ u.ino = f /\ u.size = k
    BY <2>5 DEF SetSize
  <2>8. v.do = "update" /\ v.file = f /\ v.fcb = c /\ v.cells = m
    BY <2>2, <2>5 DEF Resize
  <2>9. w.do = "flush" /\ FlushOK(w, store) /\ Covers(w, f)
    BY <2>5, FlushFcbOK, Sizes DEF Ready
  <2>10. z.do = "reply" /\ z.to = r
    BY <2>5 DEF Reply
  <2>11. ASSUME NEW x \in Cell, m[x] # Unknown
         PROVE  WillHold(q, 1, store[f], x, m[x]) /\ k # 0
    <3>1. m[x] = expect[f][x] /\ x < n /\ x \in Nat
      BY <2>3, <2>11, Sizes
    <3>2. Holds(store[f], x, m[x])
      BY <3>1, <2>11 DEF Ready, Known
    <3>3. \A j \in 1..1 : q[j].do # "write"
      BY <2>6, <2>7
    <3> QED
      BY <3>1, <3>2, <3>3, <2>1, <2>4 DEF WillHold
  <2>12. /\ \A i \in 1..1 : q[i].do \in {"write", "setsize"} /\ q[i].ino = f /\ StepOK(q[i], store)
         /\ \A i, j \in 1..1 :
              i # j /\ q[i].do = "write" /\ q[j].do = "write" => q[i].at # q[j].at
         /\ \A j \in 1..1 : q[j].do = "setsize" => q[j].size = k
    BY <2>4, <2>6, <2>7 DEF StepOK
  <2>13. Change(q, 1, f, store)
    BY <2>6, <2>8, <2>9, <2>10, <2>11, <2>12 DEF Change
  <2>14. JobOK(q, store, expect)
    BY <2>13, ChangeOK
  <2>15. SetFileSize(r) = q
    BY <1>2, <2>1, <2>3, <2>5 DEF SetFileSize
  <2> QED
    BY <2>14, <2>15
<1> QED
  BY <1>1, <1>2

\* The blocks that a write makes: the text, and around it what was there.
Got(r, first, last) ==
  IF fcb[r.file].size = 0 \/ first > fcb[r.file].size \div BlockSize THEN 0
  ELSE Readable(r.file, first,
         (IF r.offset + Len(r.text) > fcb[r.file].size
          THEN fcb[r.file].size \div BlockSize ELSE last) - first + 1)

PutCell(r, b, first, got, i, x) ==
  IF ((i - 1) * BlockSize + x - (r.offset % BlockSize)) \in 1..Len(r.text)
  THEN r.text[(i - 1) * BlockSize + x - (r.offset % BlockSize)]
  ELSE (IF i <= got THEN b[first + i] ELSE Zeros)[x]

LEMMA PutIs ==
  ASSUME NEW r, NEW first, NEW last
  PROVE  \A i \in 1..last - first + 1 :
           /\ IsBlock(Put(r, first, last)[i])
           /\ \A x \in 1..BlockSize :
                Put(r, first, last)[i][x] = PutCell(r, store[r.file], first, Got(r, first, last), i, x)
<1>1. PICK put, got, b : put = Put(r, first, last) /\ got = Got(r, first, last) /\ b = store[r.file]
  OBVIOUS
<1>2. put = [i \in 1..last - first + 1 |-> [x \in 1..BlockSize |-> PutCell(r, b, first, got, i, x)]]
  BY <1>1 DEF Put, Got, PutCell
<1>3. ASSUME NEW i \in 1..last - first + 1
      PROVE  /\ IsBlock(put[i])
             /\ \A x \in 1..BlockSize : put[i][x] = PutCell(r, b, first, got, i, x)
  <2>1. put[i] = [x \in 1..BlockSize |-> PutCell(r, b, first, got, i, x)]
    BY <1>2
  <2> QED
    BY <2>1 DEF IsBlock
<1> QED
  BY <1>1, <1>3

\* Cell x of a file is in block j of those from block first on, where the text starts in
\* cell o; it has the text from its cell t on.
TextCell(B, o, x, i, t) ==
  i = (x \div B) - (o \div B) /\ t = i * B + ((x % B) + 1) - (o % B)

LEMMA TextPlace ==
  ASSUME NEW B \in Nat \ {0}, NEW o \in Nat, NEW x \in Nat, NEW i, NEW t, TextCell(B, o, x, i, t)
  PROVE  t = x - o + 1
<1>0. i = (x \div B) - (o \div B) /\ t = i * B + ((x % B) + 1) - (o % B)
  BY DEF TextCell
<1>1. PICK p \in Nat : \E k \in 0..B - 1 : p = o \div B /\ k = o % B /\ o = p * B + k
  BY DivPick, Zenon
<1>2. PICK k \in 0..B - 1 : p = o \div B /\ k = o % B /\ o = p * B + k
  BY <1>1
<1>3. PICK q \in Nat : \E l \in 0..B - 1 : q = x \div B /\ l = x % B /\ x = q * B + l
  BY DivPick, Zenon
<1>4. PICK l \in 0..B - 1 : q = x \div B /\ l = x % B /\ x = q * B + l
  BY <1>3
<1>5. i = q - p
  BY <1>0, <1>2, <1>4, Zenon
<1>6. t = i * B + (l + 1) - k
  BY <1>0, <1>2, <1>4, Zenon
<1>7. i * B = q * B - p * B /\ q * B \in Nat /\ p * B \in Nat
  BY <1>1, <1>3, <1>5
<1>8. PICK a \in Nat, c \in Nat : a = q * B /\ c = p * B
  BY <1>7
<1>9. t = (a - c) + (l + 1) - k /\ x = a + l /\ o = c + k
  BY <1>2, <1>4, <1>6, <1>7, <1>8, Zenon
<1> QED
  BY <1>8, <1>9, <1>2, <1>4

LEMMA WriteFileOK ==
  ASSUME Ready, NEW r, IsRequest(r), r.op = "write"
  PROVE  JobOK(WriteFile(r), store, expect)
<1>1. JobOK(Refused(r), store, expect)
  BY RefusedOK
<1>0. PICK f, o, len, size, B, end :
        /\ f = r.file /\ o = r.offset /\ len = Len(r.text) /\ size = fcb[f].size /\ B = BlockSize
        /\ end = o + len
  OBVIOUS
<1>2. /\ f = r.file /\ o = r.offset /\ len = Len(r.text) /\ size = fcb[f].size /\ B = BlockSize
      /\ end = o + len /\ end <= MaxSize
      /\ f \in Number /\ o \in Nat /\ len \in Nat /\ size \in 0..MaxSize /\ B \in Nat \ {0}
      /\ end \in Nat
  <2>1. f \in Number /\ o \in Nat /\ len \in Nat /\ end <= MaxSize
    BY <1>0, TextAssumption DEF IsRequest
  <2>2. size \in 0..MaxSize
    BY <1>0, <2>1, FcbParts, Sizes
  <2>3. end \in Nat
    BY <1>0, <2>1
  <2> QED
    BY <1>0, <2>1, <2>2, <2>3, Sizes
<1>3. PICK final, first, last :
        final = (IF end > size THEN end ELSE size) /\ first = o \div B /\ last = end \div B
  OBVIOUS
<1>4. final \in 0..MaxSize
  BY <1>2, <1>3, Sizes
<1>5. first \in Nat /\ last \in Nat /\ first <= last
  <2>1. first \in Nat /\ last \in Nat
    BY <1>2, <1>3, DivExists
  <2>2. o \div B <= end \div B
    <3>1. o <= end
      BY <1>2
    <3> QED
      BY <3>1, <1>2, DivMono
  <2> QED
    BY <2>1, <2>2, <1>3
<1>6. PICK n \in Nat : n = last - first + 1
  <2>1. last - first + 1 \in Nat
    BY <1>5
  <2> QED
    BY <2>1
<1>7. PICK ws, u, v, z, q : /\ ws = [i \in 1..n |-> Write(f, first + i - 1, Put(r, first, last)[i])]
                            /\ u = Resize(f, final, Learnt(r, size)) /\ v = FlushFcb(f)
                            /\ z = Reply(r, Ok, <<>>) /\ q = ws \o <<u, v, z>>
  OBVIOUS
<1>8. /\ IsSeq(q) /\ Len(q) = n + 3 /\ \A i \in 1..n : q[i] = ws[i]
      /\ q[n + 1] = u /\ q[n + 2] = v /\ q[n + 3] = z
  <2>1. IsSeq(ws) /\ Len(ws) = n
    <3>1. ws = [i \in 1..n |-> ws[i]] /\ n \in Nat
      BY <1>6, <1>7
    <3> QED
      BY <3>1, MadeIs
  <2>2. PICK s : s = <<u, v, z>> /\ IsSeq(s) /\ Len(s) = 3 /\ s[1] = u /\ s[2] = v /\ s[3] = z
    <3>1. PICK s : s = <<u, v, z>>
      OBVIOUS
    <3>2. IsSeq(s) /\ Len(s) = 3 /\ s[1] = u /\ s[2] = v /\ s[3] = z
      BY <3>1, ThreeIs
    <3> QED
      BY <3>1, <3>2
  <2>3. /\ IsSeq(ws \o s) /\ Len(ws \o s) = Len(ws) + Len(s)
        /\ \A i \in 1..Len(ws) : (ws \o s)[i] = ws[i]
        /\ \A i \in 1..Len(s) : (ws \o s)[Len(ws) + i] = s[i]
    BY <2>1, <2>2, ConcatIs
  <2>4. q = ws \o s
    BY <1>7, <2>2
  <2>5. IsSeq(q) /\ Len(q) = n + 3 /\ \A i \in 1..n : q[i] = ws[i]
    BY <2>1, <2>2, <2>3, <2>4
  <2>6. \A i \in 1..3 : q[n + i] = s[i]
    BY <2>1, <2>2, <2>3, <2>4
  <2> QED
    BY <2>2, <2>5, <2>6
<1>9. PICK b : b = store[f] /\ Len(b) \in Nat
  BY <1>2, Sizes DEF Ready, StoreOK, IsSeq
<1>10. PICK upto, got : /\ upto = (IF end > size THEN size \div B ELSE last)
                        /\ got = (IF size = 0 \/ first > size \div B THEN 0
                                  ELSE Readable(f, first, upto - first + 1))
                        /\ got = Got(r, first, last)
  BY <1>2 DEF Got
<1>11. PICK put :
         /\ put = Put(r, first, last)
         /\ \A i \in 1..n : /\ IsBlock(put[i])
                            /\ \A x \in 1..B : put[i][x] = PutCell(r, b, first, got, i, x)
  <2>1. PICK put : put = Put(r, first, last)
    OBVIOUS
  <2>2. \A i \in 1..last - first + 1 :
          /\ IsBlock(put[i])
          /\ \A x \in 1..BlockSize :
               put[i][x] = PutCell(r, store[r.file], first, Got(r, first, last), i, x)
    BY <2>1, PutIs
  <2> QED
    BY <2>1, <2>2, <1>2, <1>6, <1>9, <1>10
<1>12. ASSUME NEW i \in 1..n
       PROVE  /\ q[i].do = "write" /\ q[i].ino = f /\ q[i].at = first + i - 1 /\ q[i].block = put[i]
              /\ StepOK(q[i], store)
  <2>1. q[i] = Write(f, first + i - 1, put[i])
    BY <1>7, <1>8, <1>11
  <2>2. q[i].do = "write" /\ q[i].ino = f /\ q[i].at = first + i - 1 /\ q[i].block = put[i]
    BY <2>1 DEF Write
  <2>3. IsBlock(put[i])
    BY <1>11
  <2>4. first + i - 1 \in Nat
    BY <1>5, <1>6
  <2> QED
    BY <1>2, <2>2, <2>3, <2>4 DEF StepOK
<1>13. u.do = "update" /\ u.file = f /\ u.fcb \in Fcb /\ u.cells = Learnt(r, size)
  <2>1. [fcb[f] EXCEPT !.size = final] \in Fcb
    BY <1>2, <1>4, FcbParts, Sizes
  <2> QED
    BY <1>7, <2>1 DEF Resize
<1>14. v.do = "flush" /\ FlushOK(v, store) /\ Covers(v, f)
  BY <1>2, <1>7, FlushFcbOK, Sizes DEF Ready
<1>15. z.do = "reply" /\ z.to = r
  BY <1>7 DEF Reply
<1>16. ASSUME NEW x \in Cell, u.cells[x] # Unknown
       PROVE  WillHold(q, n, b, x, u.cells[x])
  <2>1. x \in Nat
    BY Sizes
  <2>2. PICK c, k, m : c = x \div B /\ k = x % B /\ m = u.cells[x]
    OBVIOUS
  <2>3. c \in Nat /\ k \in 0..B - 1
    BY <1>2, <2>1, <2>2, DivExists
  <2>4. m = IF x - o \in 0..len - 1 THEN r.text[x - o + 1]
            ELSE IF x < size THEN expect[f][x] ELSE Unknown
    BY <1>2, <1>13, <2>2 DEF Learnt
  <2>5. x - o \in 0..len - 1 => c \in first..last
    <3>1. SUFFICES ASSUME x - o \in 0..len - 1 PROVE c \in first..last
      OBVIOUS
    <3>2. o <= x /\ x <= end
      BY <1>2, <2>1, <3>1
    <3>3. o \div B <= x \div B /\ x \div B <= end \div B
      BY <1>2, <2>1, <3>2, DivMono
    <3>4. first <= c /\ c <= last
      BY <3>3, <1>3, <2>2, Zenon
    <3> QED
      BY <3>4, <2>3, <1>5
  <2>6. ASSUME ~(x - o \in 0..len - 1) PROVE x < size /\ m = expect[f][x] /\ Holds(b, x, m)
    <3>1. x < size /\ m = expect[f][x]
      BY <2>2, <2>4, <2>6, <1>16
    <3> QED
      BY <1>2, <3>1, <2>2, <1>9, <1>16 DEF Ready, Known
  <2>7. CASE c \notin first..last
    <3>1. Holds(b, x, m)
      BY <2>5, <2>6, <2>7
    <3>2. \A i \in 1..n : q[i].at # c
      <4>1. \A i \in 1..n : first + i - 1 \in first..last
        BY <1>5, <1>6
      <4> QED
        BY <4>1, <1>12, <2>7
    <3> QED
      BY <3>1, <3>2, <2>2, <1>2 DEF WillHold
  <2>8. CASE c \in first..last
    <3>1. PICK j \in 1..n : j = c - first + 1 /\ first + j - 1 = c
      <4>1. c - first + 1 \in 1..n /\ first + (c - first + 1) - 1 = c
        BY <2>8, <1>5, <1>6, <2>3
      <4> QED
        BY <4>1
    <3>2. PICK t : t = (j - 1) * B + (k + 1) - (o % B)
      OBVIOUS
    <3>3. t = x - o + 1
      <4>1. PICK i : i = j - 1
        OBVIOUS
      <4>2. i = (x \div B) - (o \div B)
        <5>1. i = c - first
          BY <3>1, <4>1, <2>3, <1>5
        <5> QED
          BY <5>1, <2>2, <1>3, Zenon
      <4>3. t = i * B + ((x % B) + 1) - (o % B)
        BY <3>2, <4>1, <2>2, Zenon
      <4> QED
        <5>1. B \in Nat \ {0} /\ o \in Nat /\ x \in Nat
          BY <1>2, <2>1
        <5>2. TextCell(B, o, x, i, t)
          BY <4>2, <4>3 DEF TextCell
        <5> QED
          BY <5>1, <5>2, TextPlace
    <3>4. put[j][k + 1] = IF t \in 1..len THEN r.text[t]
                          ELSE (IF j <= got THEN b[first + j] ELSE Zeros)[k + 1]
      <4>1. k + 1 \in 1..B
        BY <2>3, <1>2
      <4> QED
        <5>1. put[j][k + 1] = PutCell(r, b, first, got, j, k + 1)
          BY <4>1, <1>11
        <5>2. t = (j - 1) * BlockSize + (k + 1) - (r.offset % BlockSize)
          BY <3>2, <1>2, Zenon
        <5>3. put[j][k + 1] = IF t \in 1..Len(r.text) THEN r.text[t]
                              ELSE (IF j <= got THEN b[first + j] ELSE Zeros)[k + 1]
          BY <5>1, <5>2, Zenon DEF PutCell
        <5> QED
          BY <5>3, <1>2, Zenon
    <3>5. t \in 1..len <=> x - o \in 0..len - 1
      <4>1. x \in Nat /\ o \in Nat /\ len \in Nat
        BY <1>2, <2>1
      <4> QED
        BY <3>3, <4>1
    <3>6. put[j][k + 1] = m
      <4>1. CASE x - o \in 0..len - 1
        BY <4>1, <3>3, <3>4, <3>5, <2>4
      <4>2. CASE ~(x - o \in 0..len - 1)
        <5>1. x < size /\ Holds(b, x, m)
          BY <4>2, <2>6
        <5>2. c + 1 \in 1..Len(b) /\ b[c + 1][k + 1] = m
          BY <5>1, <2>2, <1>2, Zenon DEF Holds
        <5>0. size \in Nat /\ B \in Nat \ {0}
          BY <1>2, Sizes
        <5>3. PICK s \in Nat : s = size \div B
          BY <5>0, DivExists
        <5>4. c <= s
          <6>1. x <= size
            BY <5>0, <5>1, <2>1
          <6>2. x \div B <= size \div B
            BY <6>1, <2>1, <5>0, DivMono
          <6> QED
            BY <6>2, <2>2, <5>3
        <5>5. j <= got
          <6>1. ~(size = 0 \/ first > s)
            BY <5>1, <5>4, <2>1, <2>3, <2>8, <1>2, <1>5, <5>3
          <6>2. got = (IF Len(b) - first < upto - first + 1 THEN Len(b) - first ELSE upto - first + 1)
            BY <6>1, <5>3, <1>9, <1>10 DEF Readable
          <6>3. c <= upto /\ upto \in Nat
            BY <5>3, <5>4, <1>5, <1>10, <2>8
          <6>4. c + 1 <= Len(b)
            BY <5>2, <1>9
          <6> QED
            BY <6>2, <6>3, <6>4, <3>1, <1>5, <1>9, <2>3
        <5>6. first + j = c + 1
          BY <3>1, <1>5, <2>3
        <5> QED
          BY <5>2, <5>5, <5>6, <3>4, <3>5, <4>2
      <4> QED
        BY <4>1, <4>2
    <3>7. q[j].do = "write" /\ q[j].at = c /\ q[j].block[k + 1] = m
      BY <3>1, <3>6, <1>12
    <3> QED
      BY <3>7, <2>2, <1>2 DEF WillHold
  <2> QED
    BY <2>7, <2>8
<1>17. \A i, j \in 1..n : i # j => q[i].at # q[j].at
  <2>1. \A i, j \in 1..n : i # j => first + i - 1 # first + j - 1
    BY <1>5, <1>6
  <2> QED
    BY <2>1, <1>12
<1>18. Change(q, n, f, store)
  <2>1. \A j \in 1..n : q[j].do # "setsize"
    BY <1>12
  <2>2. /\ \A i \in 1..n : q[i].do \in {"write", "setsize"} /\ q[i].ino = f /\ StepOK(q[i], store)
        /\ \A i, j \in 1..n :
             i # j /\ q[i].do = "write" /\ q[j].do = "write" => q[i].at # q[j].at
    BY <1>12, <1>17
  <2>3. \A x \in Cell : q[n + 1].cells[x] # Unknown =>
          /\ WillHold(q, n, store[f], x, q[n + 1].cells[x])
          /\ \A j \in 1..n : q[j].do = "setsize" => q[j].size # 0
    BY <2>1, <1>8, <1>9, <1>16
  <2> QED
    BY <2>2, <2>3, <1>8, <1>13, <1>14, <1>15 DEF Change
<1>19. JobOK(q, store, expect)
  BY <1>2, <1>6, <1>18, ChangeOK
<1>20. CASE ~Exists(r) \/ ~WriteAllowed(r.file, r.uid)
  BY <1>1, <1>20 DEF WriteFile
<1>21. CASE ~(~Exists(r) \/ ~WriteAllowed(r.file, r.uid))
  <2>1. WriteFile(r) = IF /\ first <= size \div B
                          /\ size # 0
                          /\ Readable(f, first, 1) < 1
                       THEN Refused(r) ELSE q
    BY <1>2, <1>3, <1>6, <1>7, <1>21 DEF WriteFile
  <2> QED
    BY <2>1, <1>1, <1>19
<1> QED
  BY <1>20, <1>21

LEMMA StepsOK ==
  ASSUME Ready, NEW r, IsRequest(r)
  PROVE  JobOK(Steps(r), store, expect)
<1>1. CASE r.op = "create"
  BY <1>1, CreateOK DEF Steps
<1>2. CASE r.op = "delete"
  BY <1>2, DeleteOK DEF Steps
<1>3. CASE r.op = "chown"
  BY <1>3, ChownOK DEF Steps
<1>4. CASE r.op = "chmod"
  BY <1>4, ChmodOK DEF Steps
<1>5. CASE r.op = "read"
  BY <1>5, ReadOK DEF Steps
<1>6. CASE r.op = "write"
  BY <1>6, WriteFileOK DEF Steps
<1>7. CASE r.op = "sync"
  BY <1>7, SyncOK DEF Steps
<1>8. CASE r.op = "stat"
  BY <1>8, StatOK DEF Steps
<1>9. CASE r.op = "setsize"
  BY <1>9, SetFileSizeOK DEF Steps
<1> QED
  BY <1>1, <1>2, <1>3, <1>4, <1>5, <1>6, <1>7, <1>8, <1>9 DEF IsRequest

-----------------------------------------------------------------------------
(* A job of which a step was made.                                         *)

\* What the first k steps will do, the first of them, not a write, having been made.
LEMMA WillShift ==
  ASSUME NEW q, IsSeq(q), q # <<>>, q[1].do # "write", NEW k \in Nat \ {0}, k <= Len(q),
         NEW b, NEW c, NEW x, NEW v, WillHold(q, k, b, x, v), Holds(b, x, v) => Holds(c, x, v)
  PROVE  WillHold(Tail(q), k - 1, c, x, v)
<1>1. PICK t, d : t = Tail(q) /\ d = x \div BlockSize
  OBVIOUS
<1>2. /\ Len(q) \in Nat \ {0} /\ \A i \in 1..Len(q) - 1 : t[i] = q[i + 1]
  BY <1>1, TailIs
<1>3. \A j \in 1..k - 1 : t[j] = q[j + 1] /\ j + 1 \in 1..k
  BY <1>2
<1>4. CASE \E j \in 1..k : /\ q[j].do = "write" /\ q[j].at = d
                           /\ q[j].block[(x % BlockSize) + 1] = v
  <2>1. PICK j \in 1..k : /\ q[j].do = "write" /\ q[j].at = d
                          /\ q[j].block[(x % BlockSize) + 1] = v
    BY <1>4
  <2>2. j # 1
    BY <2>1
  <2>3. PICK i \in 1..k - 1 : i + 1 = j
    <3>1. j - 1 \in 1..k - 1 /\ (j - 1) + 1 = j
      BY <2>2
    <3> QED
      BY <3>1
  <2>4. t[i] = q[j]
    BY <2>3, <1>3
  <2> QED
    BY <2>1, <2>4, <1>1 DEF WillHold
<1>5. CASE (\A j \in 1..k : q[j].do = "write" => q[j].at # d) /\ Holds(b, x, v)
  <2>1. \A j \in 1..k - 1 : t[j].do = "write" => t[j].at # d
    BY <1>3, <1>5
  <2> QED
    BY <2>1, <1>1, <1>5 DEF WillHold
<1> QED
  BY <1>1, <1>4, <1>5 DEF WillHold

\* Blocks d are the blocks c with block b, and what is then between, written.
NewBlock(d, c, b, v) ==
  /\ Len(c) \in Nat /\ Len(d) \in Nat /\ Len(d) >= Len(c) /\ b + 1 \in 1..Len(d)
  /\ d[b + 1] = v
  /\ \A i \in 1..Len(c) : i # b + 1 => d[i] = c[i]

\* The same when the first step, a write, was made.
LEMMA WriteShift ==
  ASSUME NEW q, IsSeq(q), q # <<>>, q[1].do = "write", NEW k \in Nat \ {0}, k <= Len(q),
         NEW b \in Nat, NEW u, q[1].at = b, q[1].block = u,
         \A j \in 1..Len(q) : j # 1 /\ q[j].do = "write" => q[j].at # b,
         NEW c, NEW d, NewBlock(d, c, b, u), NEW x \in Cell, NEW v, WillHold(q, k, c, x, v)
  PROVE  WillHold(Tail(q), k - 1, d, x, v)
<1>1. PICK t, e : t = Tail(q) /\ e = x \div BlockSize
  OBVIOUS
<1>2. /\ Len(q) \in Nat \ {0} /\ \A i \in 1..Len(q) - 1 : t[i] = q[i + 1]
  BY <1>1, TailIs
<1>3. \A j \in 1..k - 1 : t[j] = q[j + 1] /\ j + 1 \in 2..k
  BY <1>2
<1>0. e \in Nat
  BY <1>1, Sizes, DivExists
<1>4. CASE q[1].at = e /\ u[(x % BlockSize) + 1] = v
  <2>1. Holds(d, x, v)
    BY <1>4, <1>1 DEF Holds, NewBlock
  <2>2. \A j \in 1..k - 1 : t[j].do = "write" => t[j].at # e
    <3>1. SUFFICES ASSUME NEW j \in 1..k - 1, t[j].do = "write" PROVE t[j].at # e
      OBVIOUS
    <3>2. t[j] = q[j + 1] /\ j + 1 \in 1..Len(q) /\ j + 1 # 1
      BY <1>2, <1>3
    <3> QED
      BY <3>1, <3>2, <1>4
  <2> QED
    BY <2>1, <2>2, <1>1 DEF WillHold
<1>5. CASE \E j \in 2..k : /\ q[j].do = "write" /\ q[j].at = e
                           /\ q[j].block[(x % BlockSize) + 1] = v
  <2>1. PICK j \in 2..k : /\ q[j].do = "write" /\ q[j].at = e
                          /\ q[j].block[(x % BlockSize) + 1] = v
    BY <1>5
  <2>2. PICK i \in 1..k - 1 : i + 1 = j
    <3>1. j - 1 \in 1..k - 1 /\ (j - 1) + 1 = j
      OBVIOUS
    <3> QED
      BY <3>1
  <2>3. t[i] = q[j]
    BY <2>2, <1>3
  <2> QED
    BY <2>1, <2>3, <1>1 DEF WillHold
<1>6. CASE (\A j \in 1..k : q[j].do = "write" => q[j].at # e) /\ Holds(c, x, v)
  <2>1. e # b /\ \A j \in 1..k - 1 : t[j].do = "write" => t[j].at # e
    <3>1. 1 \in 1..k
      OBVIOUS
    <3>2. \A j \in 1..k - 1 : j + 1 \in 1..k
      OBVIOUS
    <3> QED
      BY <3>1, <3>2, <1>3, <1>6
  <2>2. e + 1 \in 1..Len(c) /\ c[e + 1][(x % BlockSize) + 1] = v
    BY <1>1, <1>6 DEF Holds
  <2>3. e + 1 \in 1..Len(d) /\ d[e + 1] = c[e + 1]
    BY <2>1, <2>2, <1>0 DEF NewBlock
  <2>4. Holds(d, x, v)
    BY <2>2, <2>3, <1>1 DEF Holds
  <2> QED
    BY <2>1, <2>4, <1>1 DEF WillHold
<1>7. \A j \in 1..k : j = 1 \/ j \in 2..k
  OBVIOUS
<1> QED
  BY <1>1, <1>4, <1>5, <1>6, <1>7 DEF WillHold

LEMMA TailUpdate ==
  ASSUME NEW q, IsSeq(q), q # <<>>, NEW i \in 2..Len(q), NEW st, NEW s2, UpdateOK(q, i, st),
         q[i].do = "update" =>
           \A x \in Cell : LET v == q[i].cells[x]
                           IN  v # Unknown => WillHold(Tail(q), i - 2, s2[q[i].file], x, v)
  PROVE  UpdateOK(Tail(q), i - 1, s2)
<1>1. PICK t, n, k : t = Tail(q) /\ n = Len(q) /\ k = i - 1
  OBVIOUS
<1>2. n \in Nat \ {0} /\ Len(t) = n - 1 /\ \A j \in 1..n - 1 : t[j] = q[j + 1]
  BY <1>1, TailIs
<1>3. t[k] = q[i] /\ k \in 1..n - 1 /\ k - 1 = i - 2
  BY <1>1, <1>2
<1>4. SUFFICES ASSUME q[i].do = "update" PROVE UpdateOK(t, k, s2)
  BY <1>1, <1>3 DEF UpdateOK
<1>5. ASSUME NEW x \in Cell, t[k].cells[x] # Unknown
      PROVE  /\ WillHold(t, k - 1, s2[t[k].file], x, t[k].cells[x])
             /\ \A j \in 1..k - 1 : t[j].do = "setsize" => t[j].size # 0
  <2>1. WillHold(t, k - 1, s2[t[k].file], x, t[k].cells[x])
    BY <1>1, <1>3, <1>4, <1>5
  <2>2. \A j \in 1..i - 1 : q[j].do = "setsize" => q[j].size # 0
    BY <1>3, <1>4, <1>5 DEF UpdateOK
  <2>3. \A j \in 1..k - 1 : t[j] = q[j + 1] /\ j + 1 \in 1..i - 1
    BY <1>1, <1>2
  <2> QED
    BY <2>1, <2>2, <2>3
<1>6. ASSUME NEW j \in 1..Len(t), t[j].do \in {"write", "setsize"} PROVE t[j].ino = t[k].file
  <2>1. t[j] = q[j + 1] /\ j + 1 \in 1..Len(q)
    BY <1>1, <1>2
  <2> QED
    BY <2>1, <1>3, <1>4, <1>6 DEF UpdateOK
<1> QED
  BY <1>5, <1>6 DEF UpdateOK

LEMMA TailOK ==
  ASSUME NEW q, NEW st, NEW ex, JobOK(q, st, ex), q # <<>>, NEW s2, NEW e2,
         Len(st[0]) \in Nat, Len(s2[0]) \in Nat, Len(s2[0]) >= Len(st[0]),
         \A i \in 2..Len(q) : UpdateOK(Tail(q), i - 1, s2)
  PROVE  JobOK(Tail(q), s2, e2)
<1>1. PICK t, n : t = Tail(q) /\ n = Len(q)
  OBVIOUS
<1>2. IsSeq(q) /\ \A i \in 1..Len(q) : PlaceOK(q, i, st, ex)
  BY DEF JobOK
<1>3. n \in Nat \ {0} /\ IsSeq(t) /\ Len(t) = n - 1 /\ \A j \in 1..n - 1 : t[j] = q[j + 1]
  BY <1>1, <1>2, TailIs
<1>4. ASSUME NEW k \in 1..n - 1 PROVE PlaceOK(t, k, s2, e2)
  <2>1. PICK i \in 2..n : i = k + 1
    BY <1>3
  <2>2. PlaceOK(q, i, st, ex) /\ t[k] = q[i] /\ n # 1 /\ i - 1 = k
    BY <1>1, <1>2, <1>3, <2>1
  <2>3. StepOK(t[k], s2)
    <3>1. StepOK(q[i], st)
      BY <2>2 DEF PlaceOK
    <3>2. FlushOK(q[i], st) => FlushOK(q[i], s2)
      BY DEF FlushOK
    <3> QED
      BY <3>1, <3>2, <2>2 DEF StepOK
  <2>4. ~(q[i].do = "reply" /\ q[i].to.op = "read") /\ q[i].do # "boot"
    BY <2>2, <1>1 DEF PlaceOK
  <2>5. AnswerOK(t[k], e2)
    BY <2>2, <2>4 DEF AnswerOK
  <2>6. UpdateOK(t, k, s2)
    BY <1>1, <2>1, <2>2
  <2>7. t[k].do \in {"write", "setsize"} => t[Len(t)].do = "reply" /\ k # Len(t)
    <3>1. SUFFICES ASSUME q[i].do \in {"write", "setsize"} PROVE t[Len(t)].do = "reply" /\ k # Len(t)
      BY <2>2
    <3>2. q[n].do = "reply" /\ i # n
      BY <3>1, <2>2, <1>1 DEF PlaceOK
    <3>3. t[n - 1] = q[n]
      BY <1>3, <2>2
    <3> QED
      BY <3>2, <3>3, <1>3, <2>1
  <2>8. ASSUME NEW j \in 1..Len(t), k # j, t[k].do = "write", t[j].do = "write"
        PROVE  t[k].at # t[j].at
    <3>1. t[j] = q[j + 1] /\ j + 1 \in 1..n /\ j + 1 # i
      BY <1>3, <2>1, <2>8
    <3> QED
      BY <3>1, <2>2, <2>8, <1>1 DEF PlaceOK
  <2>9. t[k].do = "update" => k + 1 \in 1..Len(t) /\ Covers(t[k + 1], t[k].file)
    <3>1. SUFFICES ASSUME q[i].do = "update"
                   PROVE  k + 1 \in 1..Len(t) /\ Covers(t[k + 1], q[i].file)
      BY <2>2
    <3>2. i + 1 \in 1..n /\ Covers(q[i + 1], q[i].file)
      BY <3>1, <2>2, <1>1 DEF PlaceOK
    <3>3. k + 1 \in 1..n - 1 /\ k + 1 + 1 = i + 1
      BY <3>2, <2>1, <1>3
    <3>4. t[k + 1] = q[k + 1 + 1]
      BY <3>3, <1>3
    <3> QED
      BY <3>2, <3>3, <3>4, <1>3
  <2> QED
    BY <2>2, <2>3, <2>4, <2>5, <2>6, <2>7, <2>8, <2>9 DEF PlaceOK
<1> QED
  BY <1>1, <1>3, <1>4 DEF JobOK

\* A job whose first step became another one, e.
LEMMA HeadOK ==
  ASSUME NEW q, NEW st, NEW ex, JobOK(q, st, ex), q # <<>>, NEW s2, NEW e2,
         Len(st[0]) \in Nat, Len(s2[0]) \in Nat, Len(s2[0]) >= Len(st[0]),
         q[1].do \in {"flush", "setsize"}, NEW e, e.do \in {"flush", "reply"}, StepOK(e, s2),
         e.do = "reply" => e.to.op # "read",
         \A f \in Number : s2[f] = st[f]
  PROVE  JobOK(<<e>> \o Tail(q), s2, e2)
<1>1. PICK t, n, p : t = Tail(q) /\ n = Len(q) /\ p = <<e>> \o t
  OBVIOUS
<1>2. IsSeq(q) /\ \A i \in 1..n : PlaceOK(q, i, st, ex)
  BY <1>1 DEF JobOK
<1>3. n \in Nat \ {0} /\ IsSeq(t) /\ Len(t) = n - 1 /\ \A j \in 1..n - 1 : t[j] = q[j + 1]
  BY <1>1, <1>2, TailIs
<1>4. IsSeq(p) /\ Len(p) = n /\ p[1] = e /\ \A j \in 2..n : p[j] = q[j]
  <2>1. PICK o : o = <<e>>
    OBVIOUS
  <2>2. IsSeq(o) /\ Len(o) = 1 /\ o[1] = e
    BY <2>1, OneIs
  <2>0. Joined(o \o t, o, t)
    BY <2>2, <1>3, ConcatJoined
  <2>3. /\ IsSeq(o \o t) /\ Len(o \o t) = Len(o) + Len(t)
        /\ \A i \in 1..Len(o) : (o \o t)[i] = o[i]
        /\ \A i \in 1..Len(t) : (o \o t)[Len(o) + i] = t[i]
    BY <2>0 DEF Joined
  <2>4. /\ IsSeq(p) /\ Len(p) = 1 + (n - 1) /\ p[1] = o[1]
        /\ \A i \in 1..n - 1 : p[1 + i] = t[i]
    BY <2>1, <2>2, <2>3, <1>1, <1>3
  <2>5. ASSUME NEW j \in 2..n PROVE p[j] = q[j]
    <3>1. PICK i \in 1..n - 1 : j = i + 1 /\ j = 1 + i
      <4>1. j - 1 \in 1..n - 1 /\ j = (j - 1) + 1 /\ j = 1 + (j - 1)
        BY <1>3
      <4> QED
        BY <4>1
    <3> QED
      BY <3>1, <2>4, <1>3
  <2> QED
    BY <2>2, <2>4, <2>5, <1>3
<1>5. PlaceOK(p, 1, s2, e2)
  <2>1. AnswerOK(e, e2) /\ UpdateOK(p, 1, s2)
    BY <1>4 DEF AnswerOK, UpdateOK
  <2> QED
    BY <2>1, <1>4 DEF PlaceOK
<1>6. ASSUME NEW i \in 2..n PROVE PlaceOK(p, i, s2, e2)
  <2>1. PlaceOK(q, i, st, ex) /\ p[i] = q[i] /\ n # 1 /\ i \in 1..n
    BY <1>2, <1>3, <1>4
  <2>2. StepOK(p[i], s2)
    <3>1. StepOK(q[i], st)
      BY <2>1 DEF PlaceOK
    <3>2. FlushOK(q[i], st) => FlushOK(q[i], s2)
      BY DEF FlushOK
    <3> QED
      BY <3>1, <3>2, <2>1 DEF StepOK
  <2>3. ~(q[i].do = "reply" /\ q[i].to.op = "read") /\ q[i].do # "boot"
    BY <2>1, <1>1 DEF PlaceOK
  <2>4. AnswerOK(p[i], e2)
    BY <2>1, <2>3 DEF AnswerOK
  <2>5. UpdateOK(p, i, s2)
    <3>1. SUFFICES ASSUME q[i].do = "update" PROVE UpdateOK(p, i, s2)
      BY <2>1 DEF UpdateOK
    <3>2. UpdateOK(q, i, st) /\ q[i].file \in Number
      BY <2>1, <3>1 DEF PlaceOK, StepOK
    <3>3. ASSUME NEW x \in Cell, q[i].cells[x] # Unknown
          PROVE  /\ WillHold(p, i - 1, s2[q[i].file], x, q[i].cells[x])
                 /\ \A j \in 1..i - 1 : p[j].do = "setsize" => p[j].size # 0
      <4>1. /\ WillHold(q, i - 1, st[q[i].file], x, q[i].cells[x])
            /\ \A j \in 1..i - 1 : q[j].do = "setsize" => q[j].size # 0
        BY <3>1, <3>2, <3>3 DEF UpdateOK
      <4>2. ASSUME NEW j \in 1..i - 1
            PROVE  \/ p[j] = q[j]
                   \/ j = 1 /\ p[j].do \notin {"write", "setsize"} /\ q[j].do # "write"
        <5>1. j = 1 \/ j \in 2..n
          BY <1>3
        <5> QED
          BY <5>1, <1>4
      <4>3. WillHold(p, i - 1, st[q[i].file], x, q[i].cells[x])
        BY <4>1, <4>2 DEF WillHold
      <4> QED
        BY <4>1, <4>2, <4>3, <3>2
    <3>4. \A j \in 1..Len(p) : p[j].do \in {"write", "setsize"} => p[j].ino = q[i].file
      <4>1. SUFFICES ASSUME NEW j \in 1..n, p[j].do \in {"write", "setsize"} PROVE p[j].ino = q[i].file
        BY <1>4
      <4>2. j \in 2..n
        BY <4>1, <1>3, <1>4
      <4> QED
        BY <4>1, <4>2, <3>1, <3>2, <1>1, <1>4 DEF UpdateOK
    <3> QED
      BY <3>3, <3>4, <2>1 DEF UpdateOK
  <2>6. p[i].do \in {"write", "setsize"} => p[Len(p)].do = "reply" /\ i # Len(p)
    <3>1. n \in 2..n
      BY <1>3, <2>1
    <3> QED
      BY <3>1, <2>1, <1>1, <1>4 DEF PlaceOK
  <2>7. ASSUME NEW j \in 1..Len(p), i # j, p[i].do = "write", p[j].do = "write"
        PROVE  p[i].at # p[j].at
    <3>1. j \in 2..n
      BY <2>7, <1>3, <1>4
    <3> QED
      BY <3>1, <2>1, <2>7, <1>1, <1>4 DEF PlaceOK
  <2>8. p[i].do = "update" => i + 1 \in 1..Len(p) /\ Covers(p[i + 1], p[i].file)
    <3>1. SUFFICES ASSUME q[i].do = "update"
                   PROVE  i + 1 \in 1..Len(p) /\ Covers(p[i + 1], q[i].file)
      BY <2>1
    <3>2. i + 1 \in 1..n /\ Covers(q[i + 1], q[i].file)
      BY <3>1, <2>1, <1>1 DEF PlaceOK
    <3>3. p[i + 1] = q[i + 1]
      BY <3>2, <1>4
    <3> QED
      BY <3>2, <3>3, <1>4
  <2> QED
    BY <2>1, <2>2, <2>3, <2>4, <2>5, <2>6, <2>7, <2>8 DEF PlaceOK
<1>7. \A i \in 1..n : i = 1 \/ i \in 2..n
  BY <1>3
<1> QED
  BY <1>1, <1>4, <1>5, <1>6, <1>7 DEF JobOK

-----------------------------------------------------------------------------
(* The steps of the system.                                                 *)

LEMMA WrittenIs ==
  ASSUME StoreOK(store), NEW f \in File, NEW b \in Nat, NEW v, NEW s, s = Written(f, b, v)
  PROVE  /\ s = [g \in File |-> s[g]] /\ \A g \in File : g # f => s[g] = store[g]
         /\ IsSeq(s[f]) /\ Len(store[f]) \in Nat
         /\ Len(s[f]) = (IF b < Len(store[f]) THEN Len(store[f]) ELSE b + 1)
         /\ s[f][b + 1] = v
         /\ \A i \in 1..Len(s[f]) :
              i # b + 1 => s[f][i] = IF i <= Len(store[f]) THEN store[f][i] ELSE Zeros
<1>1. PICK o, n : o = store[f] /\ n = (IF b < Len(o) THEN Len(o) ELSE b + 1)
  OBVIOUS
<1>2. Len(o) \in Nat /\ store = [g \in File |-> store[g]]
  BY <1>1 DEF StoreOK, IsSeq
<1>3. n \in Nat /\ b + 1 \in 1..n
  BY <1>1, <1>2
<1>4. PICK w : w = [i \in 1..n |-> IF i = b + 1 THEN v ELSE IF i <= Len(o) THEN o[i] ELSE Zeros]
  OBVIOUS
<1>5. s = [store EXCEPT ![f] = w]
  BY <1>1, <1>4 DEF Written
<1>6. s = [g \in File |-> s[g]] /\ s[f] = w /\ \A g \in File : g # f => s[g] = store[g]
  BY <1>2, <1>5
<1>7. IsSeq(w) /\ Len(w) = n
  <2>1. w = [i \in 1..n |-> w[i]]
    BY <1>4
  <2> QED
    BY <2>1, <1>3, MadeIs
<1> QED
  BY <1>1, <1>2, <1>3, <1>4, <1>6, <1>7

LEMMA FirstStep ==
  ASSUME JobOK(job, store, expect), NEW d, At(d)
  PROVE  /\ job # <<>> /\ IsSeq(job) /\ Len(job) \in Nat \ {0} /\ Head(job) = job[1] /\ job[1].do = d
         /\ PlaceOK(job, 1, store, expect) /\ StepOK(job[1], store)
         /\ \A i \in 1..Len(job) : PlaceOK(job, i, store, expect)
<1>1. job # <<>> /\ IsSeq(job)
  BY DEF JobOK, At
<1>2. Len(job) \in Nat \ {0} /\ Head(job) = job[1]
  BY <1>1, TailIs
<1> QED
  BY <1>1, <1>2 DEF JobOK, At, PlaceOK

LEMMA FileParts ==
  ASSUME StoreOK(store)
  PROVE  /\ \A f \in File : IsSeq(store[f]) /\ Len(store[f]) \in Nat
         /\ Len(store[0]) \in Nat /\ store = [f \in File |-> store[f]]
BY Sizes DEF StoreOK, IsSeq

\* What is not at the head of a job while the array is made.
LEMMA ArrayComplete ==
  ASSUME ArrayThere(job, store), job[1].do \notin {"boot", "flush"}
  PROVE  Len(store[0]) >= NBlocks0
BY DEF ArrayThere

\* A step that writes nothing was made.
LEMMA TailJob ==
  ASSUME JobOK(job, store, expect), StoreOK(store), NEW d, At(d), d # "write", NEW e2
  PROVE  JobOK(Tail(job), store, e2)
<1>1. /\ job # <<>> /\ IsSeq(job) /\ Len(job) \in Nat \ {0} /\ job[1].do # "write"
      /\ \A i \in 1..Len(job) : PlaceOK(job, i, store, expect)
  BY FirstStep
<1>2. ASSUME NEW i \in 2..Len(job) PROVE UpdateOK(Tail(job), i - 1, store)
  <2>1. UpdateOK(job, i, store) /\ i \in 1..Len(job)
    BY <1>1 DEF PlaceOK
  <2>2. ASSUME job[i].do = "update", NEW x \in Cell, NEW v, v = job[i].cells[x], v # Unknown
        PROVE  WillHold(Tail(job), i - 2, store[job[i].file], x, v)
    <3>1. PICK k \in Nat \ {0} : k = i - 1 /\ k <= Len(job)
      BY <1>1
    <3>2. WillHold(job, k, store[job[i].file], x, v)
      BY <2>1, <2>2, <3>1 DEF UpdateOK
    <3>3. WillHold(Tail(job), k - 1, store[job[i].file], x, v)
      BY <3>1, <3>2, <1>1, WillShift
    <3> QED
      BY <3>1, <3>3, <1>1
  <2> QED
    BY <2>1, <2>2, <1>1, TailUpdate
<1> QED
  BY <1>1, <1>2, FileParts, TailOK

LEMMA UpdateStep ==
  ASSUME ReadInv, DoUpdate
  PROVE  ReadInv'
<1>1. At("update") /\ JobOK(job, store, expect) /\ StoreOK(store) /\ Known(store, expect)
  BY DEF ReadInv, DoUpdate
<1>2. /\ job # <<>> /\ IsSeq(job) /\ Len(job) \in Nat \ {0} /\ Head(job) = job[1]
      /\ job[1].do = "update"
      /\ PlaceOK(job, 1, store, expect) /\ StepOK(job[1], store)
      /\ \A i \in 1..Len(job) : PlaceOK(job, i, store, expect)
  BY <1>1, FirstStep
<1>3. PICK f, m : f = job[1].file /\ m = job[1].cells
  OBVIOUS
<1>4. f \in Number /\ job[1].fcb \in Fcb
  BY <1>2, <1>3 DEF StepOK
<1>5. /\ fcb' = [fcb EXCEPT ![f] = job[1].fcb] /\ expect' = [expect EXCEPT ![f] = m]
      /\ job' = Tail(job) /\ UNCHANGED <<queue, store>>
  BY <1>2, <1>3 DEF DoUpdate
<1>6. fcb' \in [File -> Fcb]
  BY <1>4, <1>5 DEF ReadInv
<1>7. Known(store, expect')
  <2>1. \A x \in Cell : m[x] # Unknown => Holds(store[f], x, m[x])
    <3>1. UpdateOK(job, 1, store)
      BY <1>2 DEF PlaceOK
    <3>2. \A x \in Cell : m[x] # Unknown => WillHold(job, 0, store[f], x, m[x])
      BY <3>1, <1>2, <1>3 DEF UpdateOK
    <3> QED
      BY <3>2 DEF WillHold
  <2>2. \A g \in File : expect'[g] = IF g = f THEN m ELSE expect[g]
    BY <1>1, <1>4, <1>5, Sizes DEF Known
  <2>3. expect' = [g \in File |-> expect'[g]]
    BY <1>1, <1>4, <1>5, Sizes DEF Known
  <2>4. ASSUME NEW g \in Number, NEW x \in Cell, expect'[g][x] # Unknown
        PROVE  Holds(store[g], x, expect'[g][x])
    BY <1>1, <2>1, <2>2, <2>4, Sizes DEF Known
  <2> QED
    BY <2>3, <2>4 DEF Known
<1>8. JobOK(Tail(job), store, expect')
  BY <1>1, TailJob
<1>9. Len(store[0]) >= NBlocks0
  BY <1>2, ArrayComplete DEF ReadInv
<1> QED
  BY <1>5, <1>6, <1>7, <1>8, <1>9 DEF ReadInv, ArrayThere
LEMMA RequestStep ==
  ASSUME ReadInv, NEW c \in Clients, NEW r \in Requests(c), Request(c, r)
  PROVE  ReadInv'
<1>1. IsRequest(r)
  BY RequestIs DEF Request
<1>2. queue' = Append(queue, r) /\ UNCHANGED <<fcb, job, store, expect>> /\ IsSeq(queue)
  BY DEF Request, ReadInv
<1>3. /\ IsSeq(queue') /\ Len(queue') = Len(queue) + 1 /\ Len(queue) \in Nat
      /\ \A i \in 1..Len(queue) : queue'[i] = queue[i]
      /\ queue'[Len(queue) + 1] = r
  BY <1>2, AppendIs DEF IsSeq
<1>4. ASSUME NEW i \in 1..Len(queue') PROVE IsRequest(queue'[i])
  <2>1. i \in 1..Len(queue) \/ i = Len(queue) + 1
    BY <1>3
  <2> QED
    BY <2>1, <1>1, <1>3 DEF ReadInv
<1> QED
  BY <1>2, <1>3, <1>4 DEF ReadInv

LEMMA ReceiveStep ==
  ASSUME ReadInv, Receive
  PROVE  ReadInv'
<1>1. /\ job = <<>> /\ queue # <<>> /\ job' = Steps(Head(queue)) /\ queue' = Tail(queue)
      /\ UNCHANGED <<fcb, store, expect>> /\ IsSeq(queue)
  BY DEF Receive, ReadInv
<1>2. Len(job) = 0
  BY <1>1
<1>3. Len(store[0]) >= NBlocks0 /\ Len(store[0]) \in Nat
  BY <1>2, FileParts DEF ReadInv, ArrayThere
<1>4. Ready
  BY <1>3 DEF Ready, ReadInv
<1>5. /\ IsSeq(queue') /\ Len(queue') = Len(queue) - 1 /\ Len(queue) \in Nat \ {0}
      /\ \A i \in 1..Len(queue) - 1 : queue'[i] = queue[i + 1]
      /\ Head(queue) = queue[1]
  BY <1>1, TailIs
<1>6. IsRequest(Head(queue))
  BY <1>5 DEF ReadInv
<1>7. JobOK(job', store, expect)
  BY <1>1, <1>4, <1>6, StepsOK
<1>8. \A i \in 1..Len(queue') : IsRequest(queue'[i])
  <2>1. SUFFICES ASSUME NEW i \in 1..Len(queue') PROVE IsRequest(queue'[i])
    OBVIOUS
  <2>2. i + 1 \in 1..Len(queue) /\ queue'[i] = queue[i + 1]
    BY <1>5
  <2> QED
    BY <2>2 DEF ReadInv
<1> QED
  BY <1>1, <1>3, <1>5, <1>7, <1>8 DEF ReadInv, ArrayThere

LEMMA ReplyStep ==
  ASSUME ReadInv, DoReply
  PROVE  ReadInv'
<1>1. At("reply") /\ JobOK(job, store, expect) /\ StoreOK(store)
  BY DEF ReadInv, DoReply
<1>2. /\ job # <<>> /\ IsSeq(job) /\ Len(job) \in Nat \ {0} /\ Head(job) = job[1] /\ job[1].do = "reply"
      /\ \A i \in 1..Len(job) : PlaceOK(job, i, store, expect)
  BY <1>1, FirstStep
<1>3. job' = Tail(job) /\ UNCHANGED <<queue, fcb, store, expect>>
  BY DEF DoReply
<1>4. JobOK(Tail(job), store, expect)
  BY <1>1, TailJob
<1>5. Len(store[0]) >= NBlocks0
  BY <1>2, ArrayComplete DEF ReadInv
<1> QED
  BY <1>3, <1>4, <1>5 DEF ReadInv, ArrayThere

LEMMA WriteFailsStep ==
  ASSUME ReadInv, DoWriteFails
  PROVE  ReadInv'
<1>1. At("write") /\ JobOK(job, store, expect) /\ StoreOK(store)
  BY DEF ReadInv, DoWriteFails
<1>2. /\ job # <<>> /\ IsSeq(job) /\ Len(job) \in Nat \ {0} /\ Head(job) = job[1] /\ job[1].do = "write"
      /\ PlaceOK(job, 1, store, expect)
      /\ \A i \in 1..Len(job) : PlaceOK(job, i, store, expect)
  BY <1>1, FirstStep
<1>3. job' = Refused(Last(job).to) /\ UNCHANGED <<queue, fcb, store, expect>>
  BY DEF DoWriteFails
<1>4. PICK e : e = job[Len(job)]
  OBVIOUS
<1>5. e.do = "reply" /\ PlaceOK(job, Len(job), store, expect)
  BY <1>2, <1>4 DEF PlaceOK
<1>6. IsRequest(e.to)
  BY <1>4, <1>5 DEF PlaceOK, StepOK
<1>7. JobOK(Refused(e.to), store, expect)
  BY <1>6, RefusedOK
<1>8. Len(store[0]) >= NBlocks0
  BY <1>2, ArrayComplete DEF ReadInv
<1> QED
  BY <1>3, <1>4, <1>7, <1>8 DEF ReadInv, ArrayThere, Last
LEMMA WriteStep ==
  ASSUME ReadInv, DoWrite
  PROVE  ReadInv'
<1>1. At("write") /\ JobOK(job, store, expect) /\ StoreOK(store) /\ Known(store, expect)
  BY DEF ReadInv, DoWrite
<1>2. /\ job # <<>> /\ IsSeq(job) /\ Len(job) \in Nat \ {0} /\ Head(job) = job[1] /\ job[1].do = "write"
      /\ PlaceOK(job, 1, store, expect) /\ StepOK(job[1], store)
      /\ \A i \in 1..Len(job) : PlaceOK(job, i, store, expect)
  BY <1>1, FirstStep
<1>3. PICK f, b, v, s : f = job[1].ino /\ b = job[1].at /\ v = job[1].block /\ s = Written(f, b, v)
  OBVIOUS
<1>4. f \in Number /\ f \in File /\ f # 0 /\ b \in Nat /\ IsBlock(v)
  BY <1>2, <1>3, Sizes DEF StepOK
<1>5. /\ store' = s /\ expect' = [expect EXCEPT ![f] = Nothing[f]]
      /\ job' = Tail(job) /\ UNCHANGED <<queue, fcb>>
  BY <1>2, <1>3 DEF DoWrite
<1>6. PICK n : n = Len(store[f])
  OBVIOUS
<1>7. /\ s = [g \in File |-> s[g]] /\ \A g \in File : g # f => s[g] = store[g]
      /\ IsSeq(s[f]) /\ n \in Nat
      /\ Len(s[f]) = (IF b < n THEN n ELSE b + 1)
      /\ s[f][b + 1] = v
      /\ \A i \in 1..Len(s[f]) : i # b + 1 => s[f][i] = IF i <= n THEN store[f][i] ELSE Zeros
  BY <1>1, <1>3, <1>4, <1>6, WrittenIs
<1>8. s[0] = store[0]
  BY <1>4, <1>7, Sizes
<1>9. StoreOK(s)
  <2>1. \A g \in File : IsSeq(s[g])
    BY <1>1, <1>7 DEF StoreOK
  <2>2. ASSUME NEW g \in Number, NEW i \in 1..Len(s[g]) PROVE IsBlock(s[g][i])
    <3>1. CASE g # f
      <4>1. s[g] = store[g]
        BY <3>1, <1>7, Sizes
      <4> QED
        BY <4>1, <2>2, <1>1 DEF StoreOK
    <3>2. CASE g = f /\ i = b + 1
      BY <3>2, <1>4, <1>7
    <3>3. CASE g = f /\ i # b + 1
      <4>1. s[f][i] = IF i <= n THEN store[f][i] ELSE Zeros
        BY <3>3, <2>2, <1>7
      <4>2. CASE i <= n
        <5>1. i \in 1..Len(store[f])
          BY <4>2, <1>6, <1>7, <2>2
        <5>2. IsBlock(store[f][i])
          BY <5>1, <1>1, <1>4 DEF StoreOK
        <5> QED
          BY <5>2, <4>1, <4>2, <3>3
      <4>3. CASE ~(i <= n)
        <5>1. IsBlock(Zeros)
          BY DEF IsBlock, Zeros
        <5> QED
          BY <5>1, <4>1, <4>3, <3>3
      <4> QED
        BY <4>2, <4>3
    <3> QED
      BY <3>1, <3>2, <3>3
  <2>3. \A i \in 1..Len(s[0]) : i <= NBlocks0 => s[0][i] \in [0..FcbsPerBlock - 1 -> Fcb]
    BY <1>1, <1>8 DEF StoreOK
  <2> QED
    BY <2>1, <2>2, <2>3, <1>7 DEF StoreOK
<1>10. Known(s, expect')
  <2>1. \A x \in Cell : Nothing[f][x] = Unknown
    BY <1>4 DEF Nothing
  <2>2. \A g \in File : expect'[g] = IF g = f THEN Nothing[f] ELSE expect[g]
    BY <1>1, <1>5 DEF Known
  <2>3. expect' = [g \in File |-> expect'[g]]
    BY <1>1, <1>4, <1>5 DEF Known
  <2>4. ASSUME NEW g \in Number, NEW x \in Cell, expect'[g][x] # Unknown
        PROVE  Holds(s[g], x, expect'[g][x])
    <3>1. g # f /\ g \in File
      BY <2>1, <2>2, <2>4, Sizes
    <3>2. s[g] = store[g] /\ expect'[g] = expect[g]
      BY <3>1, <1>7, <2>2
    <3> QED
      BY <3>2, <2>4, <1>1 DEF Known
  <2> QED
    BY <2>3, <2>4 DEF Known
<1>13. NewBlock(s[f], store[f], b, v)
  <2>1. Len(s[f]) \in Nat /\ Len(s[f]) >= n /\ b + 1 \in 1..Len(s[f])
    BY <1>4, <1>7
  <2>2. \A i \in 1..n : i # b + 1 => s[f][i] = store[f][i]
    <3>1. SUFFICES ASSUME NEW i \in 1..n, i # b + 1 PROVE s[f][i] = store[f][i]
      OBVIOUS
    <3>2. i \in 1..Len(s[f]) /\ i <= n
      BY <2>1, <3>1, <1>7
    <3> QED
      BY <3>1, <3>2, <1>7
  <2> QED
    BY <2>1, <2>2, <1>6, <1>7 DEF NewBlock
<1>11. JobOK(Tail(job), s, expect')
  <2>1. ASSUME NEW i \in 2..Len(job) PROVE UpdateOK(Tail(job), i - 1, s)
    <3>1. UpdateOK(job, i, store) /\ i \in 1..Len(job)
      BY <1>2 DEF PlaceOK
    <3>2. ASSUME job[i].do = "update", NEW x \in Cell, NEW w, w = job[i].cells[x], w # Unknown
          PROVE  WillHold(Tail(job), i - 2, s[job[i].file], x, w)
      <4>1. PICK k \in Nat \ {0} : k = i - 1 /\ k <= Len(job)
        BY <1>2
      <4>2. job[i].file = f
        BY <1>2, <1>3, <3>1, <3>2 DEF UpdateOK
      <4>3. WillHold(job, k, store[f], x, w)
        BY <3>1, <3>2, <4>1, <4>2 DEF UpdateOK
      <4>4. \A j \in 1..Len(job) : j # 1 /\ job[j].do = "write" => job[j].at # b
        BY <1>2, <1>3 DEF PlaceOK
      <4>5. WillHold(Tail(job), k - 1, s[f], x, w)
        <5>1. job[1].at = b /\ job[1].block = v /\ x \in Nat
          BY <1>3, Sizes
        <5> QED
          BY <5>1, <4>1, <4>3, <4>4, <1>2, <1>4, <1>13, WriteShift
      <4> QED
        BY <4>1, <4>2, <4>5, <1>2
    <3> QED
      BY <3>1, <3>2, <1>2, TailUpdate
  <2>2. Len(s[0]) \in Nat /\ Len(s[0]) >= Len(store[0]) /\ Len(store[0]) \in Nat
    BY <1>1, <1>8, FileParts
  <2> QED
    BY <2>1, <2>2, <1>1, <1>2, TailOK
<1>12. Len(store[0]) >= NBlocks0
  BY <1>2, ArrayComplete DEF ReadInv
<1> QED
  BY <1>5, <1>8, <1>9, <1>10, <1>11, <1>12 DEF ReadInv, ArrayThere
LEMMA CacheBlockIs ==
  ASSUME fcb \in [File -> Fcb], NEW b \in Nat, b < NBlocks0
  PROVE  CacheBlock(b) \in [0..FcbsPerBlock - 1 -> Fcb]
<1>1. Free \in Fcb
  BY Sizes DEF Free, Fcb
<1>2. \A g \in File : fcb[g] \in Fcb
  OBVIOUS
<1>3. \A i \in 0..FcbsPerBlock - 1 :
        (IF b * FcbsPerBlock + i \in File THEN fcb[b * FcbsPerBlock + i] ELSE Free) \in Fcb
  BY <1>1, <1>2, Zenon
<1>4. CacheBlock(b) = [i \in 0..FcbsPerBlock - 1 |->
        IF b * FcbsPerBlock + i \in File THEN fcb[b * FcbsPerBlock + i] ELSE Free]
  BY DEF CacheBlock
<1> QED
  BY <1>3, <1>4, Zenon

LEMMA FlushStep ==
  ASSUME ReadInv, DoFlush
  PROVE  ReadInv'
<1>1. At("flush") /\ JobOK(job, store, expect) /\ StoreOK(store) /\ Known(store, expect)
  BY DEF ReadInv, DoFlush
<1>2. /\ job # <<>> /\ IsSeq(job) /\ Len(job) \in Nat \ {0} /\ Head(job) = job[1] /\ job[1].do = "flush"
      /\ StepOK(job[1], store)
  BY <1>1, FirstStep
<1>3. PICK b, n, l : b = job[1].at /\ n = job[1].count /\ l = Len(store[0])
  OBVIOUS
<1>4. /\ l \in Nat /\ b \in 0..l /\ n \in Nat /\ NBlocks0 \in Nat
      /\ NBlocks0 = 1 => b + n <= 1
  BY <1>1, <1>2, <1>3, FileParts, BlocksOfArray DEF StepOK, FlushOK
<1>5. UNCHANGED <<queue, fcb, expect>>
  BY DEF DoFlush
<1>6. CASE n = 0
  <2>1. job' = Tail(job) /\ store' = store
    BY <1>2, <1>3, <1>6 DEF DoFlush
  <2>2. JobOK(Tail(job), store, expect)
    BY <1>1, TailJob
  <2>3. l >= NBlocks0
    <3>1. l >= NBlocks0 \/ b + n = NBlocks0
      BY <1>2, <1>3 DEF ReadInv, ArrayThere
    <3> QED
      BY <3>1, <1>4, <1>6
  <2> QED
    BY <2>1, <2>2, <2>3, <1>3, <1>5 DEF ReadInv, ArrayThere
<1>7. CASE n # 0
  <2>1. PICK s, e, v : v = CacheBlock(b) /\ s = Written(0, b, v) /\ e = Flush(b + 1, n - 1)
    OBVIOUS
  <2>12. b \in Nat /\ 0 \in File
    BY <1>4, Sizes
  <2>2. job' = <<e>> \o Tail(job) /\ store' = s
    BY <1>2, <1>3, <1>7, <2>1 DEF DoFlush
  <2>3. e.do = "flush" /\ e.at = b + 1 /\ e.count = n - 1
    BY <2>1 DEF Flush
  <2>4. /\ s = [g \in File |-> s[g]] /\ \A g \in File : g # 0 => s[g] = store[g]
        /\ IsSeq(s[0]) /\ Len(s[0]) = (IF b < l THEN l ELSE b + 1)
        /\ s[0][b + 1] = v
        /\ \A i \in 1..Len(s[0]) : i # b + 1 => s[0][i] = IF i <= l THEN store[0][i] ELSE Zeros
    BY <1>1, <1>3, <2>1, <2>12, WrittenIs
  <2>5. Len(s[0]) \in Nat /\ Len(s[0]) >= l /\ b + 1 \in 1..Len(s[0])
    BY <2>4, <1>4
  <2>6. \A g \in Number : s[g] = store[g]
    BY <2>4, Sizes
  <2>7. StoreOK(s)
    <3>1. \A g \in File : IsSeq(s[g])
      BY <1>1, <2>4 DEF StoreOK
    <3>2. \A g \in Number : \A i \in 1..Len(s[g]) : IsBlock(s[g][i])
      BY <1>1, <2>6 DEF StoreOK
    <3>3. ASSUME NEW i \in 1..Len(s[0]), i <= NBlocks0
          PROVE  s[0][i] \in [0..FcbsPerBlock - 1 -> Fcb]
      <4>1. CASE i = b + 1
        <5>1. b \in Nat /\ b < NBlocks0
          BY <4>1, <3>3, <1>4
        <5> QED
          BY <5>1, <4>1, <2>1, <2>4, CacheBlockIs DEF ReadInv
      <4>2. CASE i # b + 1
        <5>1. i \in 1..l
          BY <4>2, <3>3, <2>4, <1>4
        <5>2. s[0][i] = store[0][i]
          BY <5>1, <4>2, <3>3, <2>4
        <5> QED
          BY <5>1, <5>2, <3>3, <1>1, <1>3 DEF StoreOK
      <4> QED
        BY <4>1, <4>2
    <3> QED
      BY <3>1, <3>2, <3>3, <2>4 DEF StoreOK
  <2>8. Known(s, expect)
    BY <1>1, <2>6 DEF Known
  <2>9. StepOK(e, s)
    <3>1. FlushOK(e, s)
      BY <2>3, <2>5, <1>4, <1>7 DEF FlushOK
    <3> QED
      BY <2>3, <3>1 DEF StepOK
  <2>10. JobOK(<<e>> \o Tail(job), s, expect)
    BY <1>1, <1>2, <1>3, <1>4, <2>3, <2>5, <2>6, <2>9, HeadOK
  <2>11. ArrayThere(job', s)
    <3>1. CASE l >= NBlocks0
      BY <3>1, <2>5, <1>4 DEF ArrayThere
    <3>2. CASE Len(job) = 1 /\ b + n = NBlocks0
      <4>1. PICK o, t : o = <<e>> /\ t = Tail(job)
        OBVIOUS
      <4>2. IsSeq(o) /\ Len(o) = 1 /\ o[1] = e
        BY <4>1, OneIs
      <4>3. IsSeq(t) /\ Len(t) = 0
        BY <4>1, <3>2, <1>2, TailIs
      <4>4. Joined(o \o t, o, t)
        BY <4>2, <4>3, ConcatJoined
      <4>5. Len(o \o t) = 1 /\ (o \o t)[1] = e
        BY <4>2, <4>3, <4>4 DEF Joined
      <4>6. (b + 1) + (n - 1) = NBlocks0
        BY <3>2, <1>4
      <4> QED
        BY <4>1, <4>5, <4>6, <2>2, <2>3 DEF ArrayThere
    <3> QED
      BY <3>1, <3>2, <1>2, <1>3 DEF ReadInv, ArrayThere
  <2> QED
    BY <2>2, <2>7, <2>8, <2>10, <2>11, <1>5 DEF ReadInv
<1> QED
  BY <1>6, <1>7
LEMMA SetSizeStep ==
  ASSUME ReadInv, DoSetSize
  PROVE  ReadInv'
<1>1. At("setsize") /\ JobOK(job, store, expect) /\ StoreOK(store) /\ Known(store, expect)
  BY DEF ReadInv, DoSetSize
<1>2. /\ job # <<>> /\ IsSeq(job) /\ Len(job) \in Nat \ {0} /\ Head(job) = job[1]
      /\ job[1].do = "setsize"
      /\ PlaceOK(job, 1, store, expect) /\ StepOK(job[1], store)
      /\ \A i \in 1..Len(job) : PlaceOK(job, i, store, expect)
  BY <1>1, FirstStep
<1>3. PICK f, n, o : f = job[1].ino /\ n = job[1].size /\ o = store[f]
  OBVIOUS
<1>4. /\ f \in Number /\ f \in File /\ f # 0 /\ n \in Nat
      /\ IsSeq(o) /\ Len(o) \in Nat /\ Len(store[0]) \in Nat
  <2>1. f \in Number /\ n \in Nat
    BY <1>2, <1>3 DEF StepOK
  <2>2. f \in File /\ f # 0
    BY <2>1, Sizes
  <2> QED
    BY <2>1, <2>2, <1>1, <1>3, FileParts
<1>5. UNCHANGED <<queue, fcb>>
  BY DEF DoSetSize
<1>6. Len(store[0]) >= NBlocks0
  BY <1>2, ArrayComplete DEF ReadInv
<1>7. CASE n = 0
  <2>1. PICK s : s = Resized(f, n)
    OBVIOUS
  <2>2. store' = s /\ expect' = [expect EXCEPT ![f] = Nothing[f]] /\ job' = Tail(job)
    BY <1>2, <1>3, <1>7, <2>1 DEF DoSetSize, CanResize
  <2>3. PICK w : w = SubSeq(o, 0 + 1, 0 + n)
    OBVIOUS
  <2>4. Slice(w, o, 0, n)
    BY <2>3, <1>4, <1>7, SubSeqIs
  <2>5. w = SubSeq(o, 1, n)
    BY <2>3, <1>4
  <2>6. /\ s = [g \in File |-> s[g]] /\ s[f] = w /\ \A g \in File : g # f => s[g] = store[g]
    BY <2>1, <2>5, <1>3, <1>4, <1>1 DEF Resized, StoreOK
  <2>7. IsSeq(s[f]) /\ Len(s[f]) = 0 /\ s[0] = store[0]
    BY <2>4, <2>6, <1>4, <1>7, Sizes DEF Slice
  <2>8. StoreOK(s)
    <3>1. \A g \in File : IsSeq(s[g])
      BY <1>1, <2>6, <2>7 DEF StoreOK
    <3>2. ASSUME NEW g \in Number, NEW i \in 1..Len(s[g]) PROVE IsBlock(s[g][i])
      <4>1. g # f /\ g \in File
        BY <3>2, <2>7, Sizes
      <4>2. s[g] = store[g]
        BY <4>1, <2>6
      <4> QED
        BY <4>2, <3>2, <1>1 DEF StoreOK
    <3>3. \A i \in 1..Len(s[0]) : i <= NBlocks0 => s[0][i] \in [0..FcbsPerBlock - 1 -> Fcb]
      BY <1>1, <2>7 DEF StoreOK
    <3> QED
      BY <3>1, <3>2, <3>3, <2>6 DEF StoreOK
  <2>9. Known(s, expect')
    <3>1. \A x \in Cell : Nothing[f][x] = Unknown
      BY <1>4 DEF Nothing
    <3>2. \A g \in File : expect'[g] = IF g = f THEN Nothing[f] ELSE expect[g]
      BY <1>1, <2>2 DEF Known
    <3>3. expect' = [g \in File |-> expect'[g]]
      BY <1>1, <1>4, <2>2 DEF Known
    <3>4. ASSUME NEW g \in Number, NEW x \in Cell, expect'[g][x] # Unknown
          PROVE  Holds(s[g], x, expect'[g][x])
      <4>1. g # f /\ g \in File
        BY <3>1, <3>2, <3>4, Sizes
      <4>2. s[g] = store[g] /\ expect'[g] = expect[g]
        BY <4>1, <2>6, <3>2
      <4> QED
        BY <4>2, <3>4, <1>1 DEF Known
    <3> QED
      BY <3>3, <3>4 DEF Known
  <2>10. ASSUME NEW i \in 2..Len(job) PROVE UpdateOK(Tail(job), i - 1, s)
    <3>1. UpdateOK(job, i, store) /\ 1 \in 1..i - 1 /\ i \in 1..Len(job)
      BY <1>2 DEF PlaceOK
    <3>2. job[i].do = "update" => \A x \in Cell : job[i].cells[x] = Unknown
      BY <3>1, <1>2, <1>3, <1>7 DEF UpdateOK
    <3> QED
      BY <3>1, <3>2, <1>2, TailUpdate
  <2>11. JobOK(Tail(job), s, expect')
    <3>1. Len(s[0]) \in Nat /\ Len(s[0]) >= Len(store[0])
      BY <1>4, <2>7
    <3> QED
      BY <3>1, <2>10, <1>1, <1>2, <1>4, TailOK
  <2> QED
    BY <2>2, <2>7, <2>8, <2>9, <2>11, <1>5, <1>6 DEF ReadInv, ArrayThere
<1>8. CASE n # 0 /\ n = Len(o)
  <2>1. PICK s : s = Resized(f, n)
    OBVIOUS
  <2>2. store' = s /\ expect' = expect /\ job' = Tail(job)
    BY <1>2, <1>3, <1>8, <2>1 DEF DoSetSize, CanResize
  <2>3. PICK w : w = SubSeq(o, 0 + 1, 0 + n)
    OBVIOUS
  <2>4. Slice(w, o, 0, n)
    BY <2>3, <1>4, <1>8, SubSeqIs
  <2>5. w = SubSeq(o, 1, n)
    BY <2>3, <1>4
  <2>6. w = o
    BY <2>4, <1>4, <1>8 DEF Slice, IsSeq
  <2>7. s = store
    BY <2>1, <2>5, <2>6, <1>1, <1>3, <1>4 DEF Resized, StoreOK
  <2>8. JobOK(Tail(job), store, expect)
    BY <1>1, TailJob
  <2> QED
    BY <2>2, <2>7, <2>8, <1>5, <1>6 DEF ReadInv, ArrayThere
<1>9. CASE n \notin {0, Len(o)}
  <2>1. PICK e, l : l = job[Len(job)] /\ e = Reply(l.to, Error, <<>>)
    OBVIOUS
  <2>2. job' = <<e>> \o Tail(job) /\ UNCHANGED <<store, expect>>
    BY <1>2, <1>3, <1>9, <2>1 DEF DoSetSize, CanResize, Refused, Last
  <2>3. e.do = "reply" /\ e.to = l.to
    BY <2>1 DEF Reply
  <2>4. l.do = "reply" /\ Len(job) # 1 /\ PlaceOK(job, Len(job), store, expect)
    BY <1>2, <2>1 DEF PlaceOK
  <2>5. IsRequest(l.to) /\ l.to.op # "read"
    BY <2>1, <2>4 DEF PlaceOK, StepOK
  <2>6. StepOK(e, store)
    BY <2>3, <2>5 DEF StepOK
  <2>7. JobOK(<<e>> \o Tail(job), store, expect)
    BY <1>1, <1>2, <1>4, <2>3, <2>5, <2>6, HeadOK
  <2> QED
    BY <2>2, <2>7, <1>5, <1>6 DEF ReadInv, ArrayThere
<1> QED
  BY <1>7, <1>8, <1>9

\* The file server when the machine has just started.
LEMMA BootJob ==
  ASSUME NEW st, NEW ex
  PROVE  /\ JobOK(<<[do |-> "boot"]>>, st, ex) /\ ArrayThere(<<[do |-> "boot"]>>, st)
         /\ [f \in File |-> Free] \in [File -> Fcb]
<1>1. PICK s, q : s = [do |-> "boot"] /\ q = <<s>>
  OBVIOUS
<1>2. s.do = "boot" /\ Len(q) = 1 /\ q[1] = s
  BY <1>1, OneIs
<1>3. StepOK(s, st) /\ AnswerOK(s, ex)
  BY <1>2 DEF StepOK, AnswerOK
<1>4. JobOK(<<s>>, st, ex)
  BY <1>2, <1>3, OneStepOK
<1>5. Free \in Fcb
  BY Sizes DEF Free, Fcb
<1> QED
  BY <1>1, <1>2, <1>4, <1>5 DEF ArrayThere

LEMMA EmptyIs == IsSeq(<<>>) /\ Len(<<>>) = 0
<1>1. <<>> \in Seq({})
  OBVIOUS
<1> QED
  BY <1>1, SeqIs

LEMMA CrashStep ==
  ASSUME ReadInv, Crash
  PROVE  ReadInv'
<1>1. /\ queue' = <<>> /\ fcb' = [f \in File |-> Free] /\ job' = <<[do |-> "boot"]>>
      /\ UNCHANGED <<store, expect>>
  BY DEF Crash
<1>2. JobOK(job', store, expect) /\ ArrayThere(job', store) /\ fcb' \in [File -> Fcb]
  BY <1>1, BootJob
<1>3. IsSeq(queue') /\ \A i \in 1..Len(queue') : IsRequest(queue'[i])
  BY <1>1, EmptyIs
<1> QED
  BY <1>1, <1>2, <1>3 DEF ReadInv

LEMMA LoadedIs ==
  ASSUME StoreOK(store)
  PROVE  Loaded(store[0]) \in [File -> Fcb]
<1>1. CASE Len(store[0]) # NBlocks0
  <2>1. \A a \in BOOLEAN : [Free EXCEPT !.alloc = a] \in Fcb
    BY Sizes DEF Free, Fcb
  <2>2. Formatted \in [File -> Fcb]
    BY <2>1 DEF Formatted
  <2> QED
    BY <1>1, <2>2 DEF Loaded
<1>2. CASE Len(store[0]) = NBlocks0
  <2>1. ASSUME NEW f \in File
        PROVE  store[0][f \div FcbsPerBlock + 1][f % FcbsPerBlock] \in Fcb
    <3>1. PICK b, k : b = f \div FcbsPerBlock /\ k = f % FcbsPerBlock
      OBVIOUS
    <3>2. b \in 0..NBlocks0 - 1 /\ k \in 0..FcbsPerBlock - 1 /\ NBlocks0 \in Nat
      BY <3>1, BlocksOfArray
    <3>3. b + 1 \in 1..Len(store[0]) /\ b + 1 <= NBlocks0
      BY <3>2, <1>2
    <3>4. store[0][b + 1] \in [0..FcbsPerBlock - 1 -> Fcb]
      BY <3>3 DEF StoreOK
    <3> QED
      BY <3>1, <3>2, <3>4
  <2>2. Loaded(store[0]) = [f \in File |-> store[0][f \div FcbsPerBlock + 1][f % FcbsPerBlock]]
    BY <1>2 DEF Loaded
  <2> QED
    BY <2>1, <2>2, Zenon
<1> QED
  BY <1>1, <1>2

LEMMA NothingKnown ==
  ASSUME NEW st
  PROVE  Known(st, Nothing)
<1>1. Nothing = [f \in File |-> Nothing[f]]
  BY DEF Nothing
<1>2. \A f \in Number : \A x \in Cell : Nothing[f][x] = Unknown
  BY Sizes DEF Nothing
<1> QED
  BY <1>1, <1>2 DEF Known

LEMMA BootStep ==
  ASSUME ReadInv, Boot
  PROVE  ReadInv'
<1>1. StoreOK(store) /\ fcb' = Loaded(store[0]) /\ UNCHANGED <<queue, store>> /\ Len(store[0]) \in Nat
  BY FileParts DEF Boot, ReadInv
<1>2. fcb' \in [File -> Fcb]
  BY <1>1, LoadedIs
<1>3. CASE Len(store[0]) = NBlocks0
  <2>1. job' = <<>> /\ expect' = expect
    BY <1>3 DEF Boot
  <2>2. JobOK(<<>>, store, expect)
    BY EmptyIs DEF JobOK
  <2> QED
    BY <2>1, <2>2, <1>1, <1>2, <1>3 DEF ReadInv, ArrayThere
<1>4. CASE Len(store[0]) # NBlocks0
  <2>1. PICK s, q : s = Flush(0, NBlocks0) /\ q = <<s>>
    OBVIOUS
  <2>2. job' = q /\ expect' = Nothing
    BY <1>4, <2>1 DEF Boot
  <2>3. s.do = "flush" /\ s.at = 0 /\ s.count = NBlocks0 /\ NBlocks0 \in Nat
    BY <2>1, BlocksOfArray DEF Flush
  <2>4. StepOK(s, store) /\ AnswerOK(s, Nothing)
    BY <1>1, <2>3 DEF StepOK, FlushOK, AnswerOK
  <2>5. JobOK(<<s>>, store, Nothing)
    BY <2>3, <2>4, OneStepOK
  <2>6. Len(q) = 1 /\ q[1] = s
    BY <2>1, OneIs
  <2>7. ArrayThere(q, store)
    BY <2>3, <2>6 DEF ArrayThere
  <2> QED
    BY <2>1, <2>2, <2>5, <2>7, <1>1, <1>2, NothingKnown DEF ReadInv
<1> QED
  BY <1>3, <1>4

LEMMA InitOK ==
  ASSUME Init
  PROVE  ReadInv
<1>1. StoreOK(store)
  <2>1. \A f \in File : store[f] = <<>>
    BY DEF Init
  <2>2. store = [f \in File |-> store[f]]
    BY DEF Init
  <2> QED
    BY <2>1, <2>2, Sizes, EmptyIs DEF StoreOK
<1>2. JobOK(job, store, expect) /\ ArrayThere(job, store) /\ fcb \in [File -> Fcb]
  BY BootJob DEF Init
<1>3. IsSeq(queue) /\ \A i \in 1..Len(queue) : IsRequest(queue[i])
  BY EmptyIs DEF Init
<1>4. Known(store, expect)
  BY NothingKnown DEF Init
<1> QED
  BY <1>1, <1>2, <1>3, <1>4 DEF ReadInv

\* What the file server does with a request, what is written and what is known of the files fit
\* together in every state.
THEOREM ReadInvCorrect == Spec => []ReadInv
<1>1. Init => ReadInv
  BY InitOK
<1>2. ReadInv /\ [Next]_vars => ReadInv'
  <2>1. SUFFICES ASSUME ReadInv, [Next]_vars PROVE ReadInv'
    OBVIOUS
  <2>2. CASE \E c \in Clients : \E r \in Requests(c) : Request(c, r)
    BY <2>1, <2>2, RequestStep
  <2>3. CASE Receive
    BY <2>1, <2>3, ReceiveStep
  <2>4. CASE DoUpdate
    BY <2>1, <2>4, UpdateStep
  <2>5. CASE DoWrite
    BY <2>1, <2>5, WriteStep
  <2>6. CASE DoWriteFails
    BY <2>1, <2>6, WriteFailsStep
  <2>7. CASE DoFlush
    BY <2>1, <2>7, FlushStep
  <2>8. CASE DoSetSize
    BY <2>1, <2>8, SetSizeStep
  <2>9. CASE DoReply
    BY <2>1, <2>9, ReplyStep
  <2>10. CASE Boot
    BY <2>1, <2>10, BootStep
  <2>11. CASE Crash
    BY <2>1, <2>11, CrashStep
  <2>12. CASE UNCHANGED vars
    BY <2>1, <2>12 DEF vars, ReadInv
  <2> QED
    BY <2>1, <2>2, <2>3, <2>4, <2>5, <2>6, <2>7, <2>8, <2>9, <2>10, <2>11, <2>12 DEF Next, Server
<1> QED
  BY <1>1, <1>2, PTL DEF Spec

\* A read returns what was last written, for every cell of the file of which that is known, through
\* writes of part of a block, deletions, full disks and restarts (blkfile_put(), blkfile_do_read()).
THEOREM ReadIsWrittenCorrect == Spec => []ReadIsWritten
<1>1. ReadInv => ReadIsWritten
  <2>1. SUFFICES ASSUME ReadInv, NEW i \in DOMAIN job PROVE AnswerOK(job[i], expect)
    BY DEF ReadIsWritten, AnswerOK
  <2>2. JobOK(job, store, expect) /\ IsSeq(job)
    BY <2>1 DEF ReadInv, JobOK
  <2>3. i \in 1..Len(job)
    BY <2>1, <2>2, SeqIn
  <2> QED
    BY <2>2, <2>3 DEF JobOK, PlaceOK
<1> QED
  BY <1>1, ReadInvCorrect, PTL
-----------------------------------------------------------------------------
(* The array and the cache.                                                 *)

\* While nothing is written to the array, it has every control block.
LEMMA AllInArray ==
  ASSUME SavedInv, job # <<>> => job[1].do \notin {"flush", "boot"}
  PROVE  \A f \in File : InArray(f)
BY DEF SavedInv, Covers

LEMMA SameArray ==
  ASSUME SavedInv, job # <<>> => job[1].do \notin {"flush", "boot"},
         fcb' = fcb, store'[0] = store[0]
  PROVE  SavedInv'
BY AllInArray DEF SavedInv, InArray

\* The first block of the array that is written has the control blocks of its files.
LEMMA InCacheBlock ==
  ASSUME NEW f \in File, NEW b, b = f \div FcbsPerBlock
  PROVE  CacheBlock(b)[f % FcbsPerBlock] = fcb[f]
<1>1. f \in Nat /\ FcbsPerBlock \in Nat \ {0}
  BY Sizes
<1>2. PICK k \in 0..FcbsPerBlock - 1 : k = f % FcbsPerBlock /\ f = b * FcbsPerBlock + k /\ b \in Nat
  BY <1>1, DivExists, Zenon
<1>3. b < NBlocks0
  BY BlocksOfArray
<1>4. CacheBlock(b) = [i \in 0..FcbsPerBlock - 1 |->
        IF b * FcbsPerBlock + i \in File THEN fcb[b * FcbsPerBlock + i] ELSE Free]
  BY <1>3 DEF CacheBlock
<1>5. CacheBlock(b)[k] = IF f \in File THEN fcb[f] ELSE Free
  BY <1>2, <1>4, Zenon
<1> QED
  BY <1>2, <1>5

LEMMA UpdateSaved ==
  ASSUME ReadInv, SavedInv, DoUpdate
  PROVE  SavedInv'
<1>1. At("update") /\ JobOK(job, store, expect)
  BY DEF ReadInv, DoUpdate
<1>2. /\ job # <<>> /\ IsSeq(job) /\ Len(job) \in Nat \ {0} /\ Head(job) = job[1]
      /\ job[1].do = "update"
      /\ PlaceOK(job, 1, store, expect)
  BY <1>1, FirstStep
<1>3. PICK f : f = job[1].file
  OBVIOUS
<1>4. fcb' = [fcb EXCEPT ![f] = job[1].fcb] /\ job' = Tail(job) /\ UNCHANGED store
  BY <1>2, <1>3 DEF DoUpdate
<1>5. 1 + 1 \in 1..Len(job) /\ Covers(job[1 + 1], f)
  BY <1>2, <1>3 DEF PlaceOK
<1>6. Len(job') = Len(job) - 1 /\ job'[1] = job[1 + 1]
  <2>1. Len(Tail(job)) = Len(job) - 1 /\ \A i \in 1..Len(job) - 1 : Tail(job)[i] = job[i + 1]
    BY <1>2, TailIs
  <2>2. 1 \in 1..Len(job) - 1
    BY <1>2, <1>5
  <2> QED
    BY <2>1, <2>2, <1>4
<1>7. job' # <<>>
  BY <1>2, <1>5, <1>6, EmptyIs
<1>8. ASSUME NEW g \in File PROVE InArray(g)' \/ (job' # <<>> /\ Covers(job'[1], g))
  <2>1. CASE g = f
    BY <2>1, <1>5, <1>6, <1>7
  <2>2. CASE g # f
    <3>1. InArray(g) /\ fcb'[g] = fcb[g]
      BY <2>2, <1>2, <1>4, AllInArray DEF ReadInv
    <3> QED
      BY <3>1, <1>4 DEF InArray
  <2> QED
    BY <2>1, <2>2
<1> QED
  BY <1>4, <1>8 DEF SavedInv, Covers

LEMMA FlushSaved ==
  ASSUME ReadInv, SavedInv, DoFlush
  PROVE  SavedInv'
<1>1. At("flush") /\ JobOK(job, store, expect) /\ StoreOK(store)
  BY DEF ReadInv, DoFlush
<1>2. /\ job # <<>> /\ IsSeq(job) /\ Len(job) \in Nat \ {0} /\ Head(job) = job[1] /\ job[1].do = "flush"
      /\ StepOK(job[1], store)
  BY <1>1, FirstStep
<1>3. PICK b, n, l : b = job[1].at /\ n = job[1].count /\ l = Len(store[0])
  OBVIOUS
<1>4. /\ l \in Nat /\ b \in 0..l /\ n \in Nat /\ b \in Nat /\ NBlocks0 \in Nat
      /\ NBlocks0 = 1 => b + n <= 1
  BY <1>1, <1>2, <1>3, FileParts, BlocksOfArray DEF StepOK, FlushOK
<1>5. UNCHANGED fcb
  BY DEF DoFlush
<1>6. \A f \in File : InArray(f) \/ Covers(job[1], f)
  BY <1>2 DEF SavedInv
<1>7. CASE n = 0
  <2>1. store' = store
    BY <1>2, <1>3, <1>7 DEF DoFlush
  <2>2. ASSUME NEW f \in File PROVE InArray(f)
    <3>1. f \div FcbsPerBlock \in 0..NBlocks0 - 1
      BY BlocksOfArray
    <3>2. ~Covers(job[1], f)
      BY <3>1, <1>3, <1>4, <1>7 DEF Covers
    <3> QED
      BY <3>2, <1>6
  <2> QED
    BY <2>1, <2>2, <1>5 DEF SavedInv, InArray
<1>8. CASE n # 0
  <2>1. PICK s, e, v, t : /\ v = CacheBlock(b) /\ s = Written(0, b, v)
                          /\ e = Flush(b + 1, n - 1) /\ t = Tail(job)
    OBVIOUS
  <2>2. job' = <<e>> \o t /\ store' = s
    BY <1>2, <1>3, <1>8, <2>1 DEF DoFlush
  <2>3. e.do = "flush" /\ e.at = b + 1 /\ e.count = n - 1
    BY <2>1 DEF Flush
  <2>8. b \in Nat /\ 0 \in File
    BY <1>4, Sizes
  <2>4. /\ Len(s[0]) = (IF b < l THEN l ELSE b + 1)
        /\ s[0][b + 1] = v
        /\ \A i \in 1..Len(s[0]) : i # b + 1 => s[0][i] = IF i <= l THEN store[0][i] ELSE Zeros
    BY <1>1, <1>3, <2>1, <2>8, WrittenIs
  <2>5. job' # <<>> /\ job'[1] = e
    <3>1. PICK o : o = <<e>>
      OBVIOUS
    <3>2. IsSeq(o) /\ Len(o) = 1 /\ o[1] = e
      BY <3>1, OneIs
    <3>3. IsSeq(t) /\ Len(t) \in Nat
      BY <2>1, <1>2, TailIs
    <3>4. Joined(o \o t, o, t)
      BY <3>2, <3>3, ConcatJoined
    <3>5. Len(o \o t) = 1 + Len(t) /\ (o \o t)[1] = e
      BY <3>2, <3>4 DEF Joined
    <3>6. Len(job') # 0
      BY <3>1, <3>3, <3>5, <2>2
    <3> QED
      BY <3>1, <3>5, <3>6, <2>2, EmptyIs
  <2>6. ASSUME NEW f \in File PROVE InArray(f)' \/ Covers(e, f)
    <3>1. PICK k, j : k = f \div FcbsPerBlock /\ j = f % FcbsPerBlock
      OBVIOUS
    <3>2. k \in Nat
      BY <3>1, BlocksOfArray
    <3>3. CASE k = b
      <4>1. v[j] = fcb[f]
        BY <3>1, <3>3, <2>1, InCacheBlock
      <4>2. k < Len(s[0]) /\ s[0][k + 1][j] = fcb[f]
        BY <4>1, <3>3, <2>4, <1>4
      <4> QED
        BY <4>2, <3>1, <2>2, <1>5 DEF InArray
    <3>4. CASE k # b /\ InArray(f)
      <4>1. k < l /\ store[0][k + 1][j] = fcb[f]
        BY <3>1, <3>4, <1>3 DEF InArray
      <4>2. k + 1 \in 1..Len(s[0]) /\ k + 1 # b + 1 /\ k + 1 <= l /\ k < Len(s[0])
        BY <4>1, <3>2, <3>4, <2>4, <1>4
      <4>3. s[0][k + 1] = store[0][k + 1]
        BY <4>2, <2>4
      <4> QED
        BY <4>1, <4>2, <4>3, <3>1, <2>2, <1>5 DEF InArray
    <3>5. CASE k # b /\ Covers(job[1], f)
      <4>1. b <= k /\ k < b + n
        BY <3>1, <3>5, <1>3 DEF Covers
      <4>2. b + 1 <= k /\ k < (b + 1) + (n - 1)
        BY <4>1, <3>2, <3>5, <1>4
      <4> QED
        BY <4>2, <3>1, <2>3 DEF Covers
    <3> QED
      BY <3>3, <3>4, <3>5, <1>6
  <2>7. NBlocks0 = 1 => Len(s[0]) <= 1
    <3>1. SUFFICES ASSUME NBlocks0 = 1 PROVE Len(s[0]) <= 1
      OBVIOUS
    <3>2. b = 0 /\ l <= 1
      BY <3>1, <1>3, <1>4, <1>8 DEF SavedInv
    <3> QED
      BY <3>2, <2>4, <1>4
  <2> QED
    BY <2>2, <2>5, <2>6, <2>7 DEF SavedInv
<1> QED
  BY <1>7, <1>8

LEMMA BootSaved ==
  ASSUME ReadInv, SavedInv, Boot
  PROVE  SavedInv'
<1>1. fcb' = Loaded(store[0]) /\ UNCHANGED store /\ NBlocks0 \in Nat \ {0}
  BY BlocksOfArray DEF Boot
<1>2. CASE Len(store[0]) = NBlocks0
  <2>1. Loaded(store[0]) = [f \in File |-> store[0][f \div FcbsPerBlock + 1][f % FcbsPerBlock]]
    BY <1>2 DEF Loaded
  <2>2. ASSUME NEW f \in File PROVE InArray(f)'
    <3>1. f \div FcbsPerBlock < Len(store[0])
      BY <1>2, BlocksOfArray
    <3>2. fcb'[f] = store[0][f \div FcbsPerBlock + 1][f % FcbsPerBlock]
      BY <1>1, <2>1, Zenon
    <3> QED
      BY <3>1, <3>2, <1>1 DEF InArray
  <2> QED
    BY <2>2, <1>1 DEF SavedInv
<1>3. CASE Len(store[0]) # NBlocks0
  <2>1. PICK s, q : s = Flush(0, NBlocks0) /\ q = <<s>>
    OBVIOUS
  <2>2. job' = q
    BY <1>3, <2>1 DEF Boot
  <2>3. s.do = "flush" /\ s.at = 0 /\ s.count = NBlocks0
    BY <2>1 DEF Flush
  <2>4. job' # <<>> /\ job'[1] = s
    BY <2>1, <2>2
  <2>5. ASSUME NEW f \in File PROVE Covers(s, f)
    <3>1. f \div FcbsPerBlock \in 0..NBlocks0 - 1
      BY BlocksOfArray
    <3> QED
      BY <3>1, <2>3, <1>1 DEF Covers
  <2> QED
    BY <2>4, <2>5, <1>1 DEF SavedInv
<1> QED
  BY <1>2, <1>3

\* The block server's other files are not the array.
LEMMA OtherSaved ==
  ASSUME ReadInv, SavedInv, Receive \/ DoWrite \/ DoWriteFails \/ DoSetSize \/ DoReply
  PROVE  SavedInv'
<1>1. JobOK(job, store, expect) /\ StoreOK(store) /\ UNCHANGED fcb
  BY DEF ReadInv, Receive, DoWrite, DoWriteFails, DoSetSize, DoReply
<1>2. job # <<>> => job[1].do \notin {"flush", "boot"}
  <2>1. job = <<>> \/ At("write") \/ At("setsize") \/ At("reply")
    BY DEF Receive, DoWrite, DoWriteFails, DoSetSize, DoReply
  <2> QED
    BY <2>1, <1>1, FirstStep
<1>3. store'[0] = store[0]
  <2>1. CASE DoWrite
    <3>1. At("write") /\ store' = Written(Head(job).ino, Head(job).at, Head(job).block)
      BY <2>1 DEF DoWrite
    <3>2. Head(job) = job[1] /\ job[1].do = "write" /\ StepOK(job[1], store)
      BY <3>1, <1>1, FirstStep
    <3>3. PICK f, b, v : f = job[1].ino /\ b = job[1].at /\ v = job[1].block
      OBVIOUS
    <3>4. f \in Number /\ b \in Nat
      BY <3>2, <3>3 DEF StepOK
    <3>5. f \in File /\ f # 0 /\ 0 \in File
      BY <3>4, Sizes
    <3>6. store' = Written(f, b, v)
      BY <3>1, <3>2, <3>3
    <3> QED
      BY <3>4, <3>5, <3>6, <1>1, WrittenIs
  <2>2. CASE DoSetSize
    <3>1. At("setsize")
      BY <2>2 DEF DoSetSize
    <3>2. Head(job) = job[1] /\ job[1].do = "setsize" /\ StepOK(job[1], store)
      BY <3>1, <1>1, FirstStep
    <3>3. job[1].ino # 0
      BY <3>2, Sizes DEF StepOK
    <3>4. store' = store \/ store' = Resized(job[1].ino, job[1].size)
      BY <2>2, <3>2 DEF DoSetSize
    <3> QED
      BY <3>3, <3>4, <1>1, Sizes DEF Resized, StoreOK
  <2>3. CASE Receive \/ DoWriteFails \/ DoReply
    BY <2>3 DEF Receive, DoWriteFails, DoReply
  <2> QED
    BY <2>1, <2>2, <2>3
<1> QED
  BY <1>1, <1>2, <1>3, SameArray

\* Every control block of the cache is in the array (flush_fcb_cache() is called with each change),
\* or is among those the flush at hand writes, or the machine has just started.
THEOREM SavedInvCorrect == Spec => []SavedInv
<1>1. Init => SavedInv
  <2>1. SUFFICES ASSUME Init PROVE SavedInv
    OBVIOUS
  <2>2. job = <<[do |-> "boot"]>> /\ store[0] = <<>>
    BY <2>1, Sizes DEF Init
  <2>3. job # <<>> /\ job[1].do = "boot"
    BY <2>2
  <2> QED
    BY <2>2, <2>3, EmptyIs DEF SavedInv
<1>2. ReadInv /\ SavedInv /\ [Next]_vars => SavedInv'
  <2>1. SUFFICES ASSUME ReadInv, SavedInv, [Next]_vars PROVE SavedInv'
    OBVIOUS
  <2>2. CASE (\E c \in Clients : \E r \in Requests(c) : Request(c, r)) \/ UNCHANGED vars
    <3>1. UNCHANGED <<job, store, fcb>>
      BY <2>2 DEF Request, vars
    <3> QED
      BY <3>1, <2>1 DEF SavedInv, InArray
  <2>3. CASE DoUpdate
    BY <2>1, <2>3, UpdateSaved
  <2>4. CASE DoFlush
    BY <2>1, <2>4, FlushSaved
  <2>5. CASE Boot
    BY <2>1, <2>5, BootSaved
  <2>6. CASE Crash
    <3>1. job' = <<[do |-> "boot"]>> /\ UNCHANGED store
      BY <2>6 DEF Crash
    <3>2. job' # <<>> /\ job'[1].do = "boot"
      BY <3>1
    <3> QED
      BY <3>1, <3>2, <2>1 DEF SavedInv
  <2>7. CASE Receive \/ DoWrite \/ DoWriteFails \/ DoSetSize \/ DoReply
    BY <2>1, <2>7, OtherSaved
  <2> QED
    BY <2>1, <2>2, <2>3, <2>4, <2>5, <2>6, <2>7 DEF Next, Server
<1> QED
  BY <1>1, <1>2, ReadInvCorrect, PTL DEF Spec

LEMMA SavedIsLoaded ==
  ASSUME ReadInv, SavedInv, Len(store[0]) = NBlocks0
  PROVE  CacheIsSaved
<1>1. SUFFICES ASSUME job = <<>> PROVE Loaded(store[0]) = fcb
  BY DEF CacheIsSaved
<1>2. Loaded(store[0]) = [f \in File |-> store[0][f \div FcbsPerBlock + 1][f % FcbsPerBlock]]
  BY DEF Loaded
<1>3. \A f \in File : store[0][f \div FcbsPerBlock + 1][f % FcbsPerBlock] = fcb[f]
  BY <1>1, AllInArray DEF InArray
<1>4. fcb = [f \in File |-> fcb[f]]
  BY DEF ReadInv
<1> QED
  BY <1>2, <1>3, <1>4, Zenon

\* Between requests a restart loads the cache from the array (bfs.c 24), unless flush_fcb_cache()
\* has made the array longer than it is.
THEOREM CacheIsSavedUnlessLonger == Spec => [](Len(store[0]) = NBlocks0 => CacheIsSaved)
BY ReadInvCorrect, SavedInvCorrect, SavedIsLoaded, PTL

\* If the array is one block, flush_fcb_cache() never does so, and what it loads is the cache.
THEOREM CacheIsSavedCorrect ==
  ASSUME NBlocks0 = 1
  PROVE  Spec => []CacheIsSaved
<1>1. ReadInv /\ SavedInv => CacheIsSaved
  <2>1. SUFFICES ASSUME ReadInv, SavedInv, job = <<>> PROVE CacheIsSaved
    BY DEF CacheIsSaved
  <2>2. Len(job) = 0
    BY <2>1, EmptyIs
  <2>3. Len(store[0]) >= NBlocks0 /\ Len(store[0]) \in Nat
    BY <2>1, <2>2, FileParts DEF ReadInv, ArrayThere
  <2>4. Len(store[0]) = NBlocks0
    <3>1. Len(store[0]) <= 1
      BY <2>1 DEF SavedInv
    <3>2. PICK l, n : l = Len(store[0]) /\ n = NBlocks0
      OBVIOUS
    <3>3. l \in Nat /\ l >= n /\ l <= 1 /\ n = 1
      BY <3>1, <3>2, <2>3
    <3>4. l = n
      BY <3>3
    <3> QED
      BY <3>2, <3>4
  <2> QED
    BY <2>1, <2>4, SavedIsLoaded
<1> QED
  BY <1>1, ReadInvCorrect, SavedInvCorrect, PTL
\* The requests of the clients and the number of faults, which the other steps do not read.
ClientsOK ==
  /\ client = [c \in Clients |-> client[c]]
  /\ \A c \in Clients : client[c] # None => client[c] \in Requests(c)
  /\ faults \in 0..MaxFaults

\* Requests are those that lib/file.c makes, control blocks have their fields, the blocks of the
\* files are blocks and the disk is full at most as often as assumed.
THEOREM TypeCorrect == Spec => []TypeOK
<1>1. Init => ClientsOK
  BY SizeAssumption DEF Init, ClientsOK
<1>2. ClientsOK /\ [Next]_vars => ClientsOK'
  <2>1. SUFFICES ASSUME ClientsOK, [Next]_vars PROVE ClientsOK'
    OBVIOUS
  <2>2. ASSUME NEW c \in Clients, NEW r \in Requests(c), Request(c, r) PROVE ClientsOK'
    <3>1. client' = [client EXCEPT ![c] = r] /\ UNCHANGED faults
      BY <2>2 DEF Request
    <3>2. \A d \in Clients : client'[d] = IF d = c THEN r ELSE client[d]
      BY <3>1, <2>1 DEF ClientsOK
    <3>3. client' = [d \in Clients |-> client'[d]]
      BY <3>1, <2>1, <2>2 DEF ClientsOK
    <3>4. \A d \in Clients : Requests(d)' = Requests(d)
      BY DEF Requests
    <3> QED
      BY <3>1, <3>2, <3>3, <3>4, <2>1, <2>2 DEF ClientsOK
  <2>3. CASE DoReply
    <3>1. PICK c : c = Head(job).to.client
      OBVIOUS
    <3>2. client' = [client EXCEPT ![c] = None] /\ UNCHANGED faults
      BY <2>3, <3>1 DEF DoReply
    <3>3. client' = [d \in Clients |-> client'[d]]
      BY <3>2, <2>1 DEF ClientsOK
    <3>4. \A d \in Clients : client'[d] \in {None, client[d]}
      BY <3>2, <2>1 DEF ClientsOK
    <3> QED
      BY <3>2, <3>3, <3>4, <2>1 DEF ClientsOK
  <2>4. CASE Crash
    BY <2>1, <2>4 DEF Crash, ClientsOK
  <2>5. CASE DoWriteFails
    <3>1. faults' = faults + 1 /\ faults < MaxFaults /\ UNCHANGED client
      BY <2>5 DEF DoWriteFails
    <3> QED
      BY <3>1, <2>1, SizeAssumption DEF ClientsOK
  <2>6. CASE \/ Receive \/ DoUpdate \/ DoWrite \/ DoFlush \/ DoSetSize \/ Boot \/ UNCHANGED vars
    <3>1. UNCHANGED <<client, faults>>
      BY <2>6 DEF Receive, DoUpdate, DoWrite, DoFlush, DoSetSize, Boot, vars
    <3> QED
      BY <3>1, <2>1 DEF ClientsOK
  <2> QED
    BY <2>1, <2>2, <2>3, <2>4, <2>5, <2>6 DEF Next, Server
<1>3. ReadInv /\ ClientsOK => TypeOK
  <2>1. SUFFICES ASSUME ReadInv, ClientsOK PROVE TypeOK
    OBVIOUS
  <2>2. ASSUME NEW i \in DOMAIN queue PROVE queue[i].client \in Clients
    <3>1. i \in 1..Len(queue)
      BY <2>1, SeqIn DEF ReadInv
    <3> QED
      BY <3>1, <2>1 DEF ReadInv, IsRequest
  <2>3. ASSUME NEW f \in File \ {0}, NEW i \in DOMAIN store[f]
        PROVE  DOMAIN store[f][i] = 1..BlockSize
    <3>1. f \in Number /\ IsSeq(store[f])
      BY <2>1, Sizes DEF ReadInv, StoreOK
    <3>2. i \in 1..Len(store[f])
      BY <3>1, <2>3, SeqIn
    <3>3. IsBlock(store[f][i])
      BY <3>1, <3>2, <2>1 DEF ReadInv, StoreOK
    <3> QED
      BY <3>3 DEF IsBlock
  <2>4. fcb \in [File -> Fcb]
    BY <2>1 DEF ReadInv
  <2> QED
    BY <2>1, <2>2, <2>3, <2>4 DEF TypeOK, ClientsOK, Fcb
<1> QED
  BY <1>1, <1>2, <1>3, ReadInvCorrect, PTL DEF Spec
=============================================================================
