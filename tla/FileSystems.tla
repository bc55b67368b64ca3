---------------------------- MODULE FileSystems ----------------------------
(***************************************************************************)
(* A file system in the blocks of a store: the calls of treedisk.c or of    *)
(* unixdisk.c, as fs says, whose writes reach the store one by one.         *)
(*                                                                         *)
(* The machine or the server may stop between two writes.  The writes reach *)
(* the disk in order, as they do without a cache or with a write-through    *)
(* one.                                                                     *)
(***************************************************************************)
EXTENDS Integers, Sequences, SequencesExt, FiniteSets

CONSTANTS
  Layouts,      \* file systems to look at: a subset of {"tree", "unix"}
  NInodes,      \* inodes
  Data,         \* words that are written
  TreeR,        \* words in a block of the tree file system
  TreeBlocks,   \* its size
  TreeOffsets,  \* bound: blocks that are written
  Damage,       \* bound: what a damaged word is
  UnixR,        \* the same of the Unix-like one
  UnixBlocks,
  UnixOffsets,
  NDirect,      \* its direct references
  UnixCalls,    \* bound: calls on it, whose free list may be in any order
  MaxStops      \* bound: nothing is called once the machine has stopped so often

T == INSTANCE TreeDisk WITH R <- TreeR, NBlocks <- TreeBlocks
U == INSTANCE UnixDisk WITH R <- UnixR, NBlocks <- UnixBlocks

ASSUME LayoutAssumption == Layouts \subseteq {"tree", "unix"}
ASSUME CountAssumption  == NInodes \in Nat \ {0} /\ NDirect \in Nat /\ MaxStops \in Nat
                           /\ UnixCalls \in Nat
ASSUME RefsAssumption   == TreeR \in {2 ^ i : i \in 1..8} /\ UnixR \in Nat /\ UnixR >= NDirect + 4
ASSUME SizeAssumption   == TreeBlocks \in Nat /\ TreeBlocks >= T!NInodeBlocks + 2
                           /\ UnixBlocks \in Nat /\ UnixBlocks >= U!NInodeBlocks + 2
\* unixdisk_create() loops for ever when no data blocks remain for a smaller first free block.
ASSUME RemainderAssumption == U!Remainder # 0
ASSUME DamageAssumption == Damage \subseteq Nat
ASSUME OffsetAssumption == TreeOffsets \subseteq Nat /\ UnixOffsets \subseteq Nat

\* Words are block numbers, sizes and data; data may look like any of them.
ASSUME DataAssumption   == Data \subseteq (T!Block \cap U!Block) \ {0}

VARIABLES
  fs,         \* which file system it is
  disk,       \* blocks of the store below
  req,        \* the call in progress
  todo,       \* its writes that remain
  panics,     \* TRUE if panic() comes after them
  stops,      \* how often the server or the machine has stopped
  calls,      \* how many calls the Unix-like one has had
  files       \* history: what the files contain, by the calls that returned

vars == <<fs, disk, req, todo, panics, stops, calls, files>>

Ino     == 0..(NInodes - 1)
None    == [call |-> "none"]
Offsets == IF fs = "tree" THEN TreeOffsets ELSE UnixOffsets
Block   == IF fs = "tree" THEN T!Block ELSE U!Block
Word    == IF fs = "tree" THEN T!Word ELSE U!Word
Requests == [call : {"write"}, ino : Ino, off : Offsets, word : Data]
            \cup [call : {"setsize"}, ino : Ino]           \* to 0: no other works

FileSize(i)   == IF fs = "tree" THEN T!FileSize(disk, i) ELSE U!FileSize(disk, i)
Read(i, off)  == IF fs = "tree" THEN T!Read(disk, i, off) ELSE U!Read(disk, i, off)
FileBlocks(i) == IF fs = "tree" THEN T!FileBlocks(disk, i) ELSE U!FileBlocks(disk, i)
FreeList      == IF fs = "tree" THEN T!FreeList(disk) ELSE U!FreeList(disk)
FirstFree     == 1 + (IF fs = "tree" THEN T!NInodeBlocks ELSE U!NInodeBlocks)

-----------------------------------------------------------------------------
Init ==
  /\ fs \in Layouts
  /\ disk = IF fs = "tree" THEN T!Created ELSE U!Created
  /\ req = None /\ todo = <<>> /\ panics = FALSE
  /\ stops = 0 /\ calls = 0
  /\ files = [i \in Ino |-> <<>>]

\* A call that writes, and what it does; a call on an inode that does not exist changes
\* nothing.
Begin(r, does) ==
  /\ req = None /\ stops < MaxStops
  /\ req' = r
  /\ todo' = does.w /\ panics' = (does.out = "panic")
  /\ UNCHANGED <<fs, disk, stops, files>>

TreeCall ==
  /\ fs = "tree" /\ UNCHANGED calls
  /\ \E r \in Requests :
       Begin(r, IF r.call = "setsize" THEN T!SetSizeWrites(disk, r.ino)
                ELSE T!WriteWrites(disk, r.ino, r.off, r.word))

UnixCall ==
  /\ fs = "unix" /\ calls < UnixCalls /\ calls' = calls + 1
  /\ \E r \in Requests :
       Begin(r, IF r.call = "setsize" THEN U!SetSizeWrites(disk, r.ino)
                ELSE U!WriteWrites(disk, r.ino, r.off, r.word))

Write ==
  /\ todo # <<>>
  /\ disk' = [disk EXCEPT ![Head(todo).to] = Head(todo).block]
  /\ todo' = Tail(todo)
  /\ UNCHANGED <<fs, req, panics, stops, calls, files>>

\* What the file is after the call.  A block that was never written is 0 if the file
\* system has holes, and may be anything in the Unix-like one.
Anything == -1
Unknown  == <<-2>>
Expected ==
  LET f    == files[req.ino]
      n    == IF req.off < Len(f) THEN Len(f) ELSE req.off + 1
      hole == IF fs = "tree" THEN 0 ELSE Anything
  IN  IF req.call = "setsize" THEN <<>>
      ELSE IF f = Unknown THEN Unknown
      ELSE [o \in 1..n |-> IF o = req.off + 1 THEN req.word ELSE IF o <= Len(f) THEN f[o] ELSE hole]

Return ==
  /\ req # None /\ todo = <<>> /\ ~panics
  /\ req' = None
  /\ files' = [files EXCEPT ![req.ino] = Expected]
  /\ UNCHANGED <<fs, disk, todo, panics, stops, calls>>

\* The server stops because the store is full, or the machine does.
Stop ==
  /\ req # None /\ stops < MaxStops
  /\ stops' = stops + 1
  /\ todo' = <<>> /\ panics' = FALSE
  /\ req' = None
  /\ files' = [files EXCEPT ![req.ino] = Unknown]
  /\ UNCHANGED <<fs, disk, calls>>

Panic == todo = <<>> /\ panics /\ Stop
Crash == todo # <<>> /\ Stop

Next == TreeCall \/ UnixCall \/ Write \/ Return \/ Panic \/ Crash

Spec == Init /\ [][Next]_vars
-----------------------------------------------------------------------------
\* Every word is a block number, or the -1 of the Unix-like file system.
TypeOK ==
  /\ fs \in Layouts
  /\ disk \in [Block -> [Word -> Block \cup {-1}]]
  /\ req \in Requests \cup {None}
  /\ todo \in Seq([to : Block, block : [Word -> Block \cup {-1}]])
  /\ panics \in BOOLEAN
  /\ stops \in 0..MaxStops /\ calls \in 0..UnixCalls
  /\ files \in [Ino -> Seq(Data \cup {0, Anything}) \cup {Unknown}]

\* Every file but the one that a call in progress, or interrupted, was changing has
\* the size and the blocks that the calls gave it: no step of a call disturbs another
\* file, and a call does to its own file what it should and nothing else.
FilesIntact ==
  \A i \in Ino :
    files[i] # Unknown /\ (req = None \/ req.ino # i) =>
      /\ FileSize(i) = Len(files[i])
      /\ \A o \in 1..Len(files[i]) :
           files[i][o] # Anything => Read(i, o - 1) = [j \in Word |-> files[i][o]]

\* Between calls, if none was interrupted, every block is in one place, once: in the
\* tree of one file or in the free list.  None is lost, shared by two files, or free
\* and in use.
BlocksAccounted ==
  req = None /\ stops = 0 =>
    LET all == FreeList \o FlattenSeq([j \in 1..NInodes |-> FileBlocks(j - 1)])
    IN  IsInjective(all) /\ ToSet(all) = {b \in Block : b >= FirstFree}

(* The checker, and what it promises to those who read and allocate blocks.  *)

\* The blocks that reads of the tree file system pass through, each with its place: the
\* file, how far down, and which of those there.
Visited(d) ==
  {v \in UNION {{<<<<i, j, off \div TreeR ^ (T!Levels(T!FileSize(d, i)) - j)>>, T!Way(d, i, off)[j]>> :
                   j \in 0..T!Levels(T!FileSize(d, i))} :
                 <<i, off>> \in {x \in (0..(d[0][0] * T!PerBlock - 1)) \X (0..TreeBlocks) :
                                  x[2] < T!FileSize(d, x[1])}} :
     v[2] # 0}

\* The blocks that calls of treedisk_alloc_block() return, one after the other, until the
\* list has ended or leads off the store, or certainly one has been returned twice.
Returned(d) ==
  LET alloc(s, k) ==
        LET n == T!Alloc(s.a)
        IN  IF s.a.sb[1] \notin T!Block \ {0} THEN s ELSE [a |-> n, list |-> Append(s.list, n.b)]
  IN  FoldLeft(alloc, [a |-> T!Start(d, 0), list |-> <<>>], [k \in 1..(TreeBlocks * TreeR) |-> k])

\* Reads of different places come through different blocks, and allocation returns others,
\* each once, all of them data blocks, until the list has ended.
Sound(d) ==
  LET visited == Visited(d)
      free    == SelectSeq(Returned(d).list, LAMBDA b : b \in T!Block)
      used    == {v[2] : v \in visited}
  IN  /\ d[0][0] + 1 <= TreeBlocks
      /\ Returned(d).a.sb[1] = 0
      /\ IsInjective(free) /\ ToSet(free) \cap used = {}
      /\ used \cup ToSet(free) \subseteq (d[0][0] + 1)..(TreeBlocks - 1)
      /\ Cardinality(used) = Cardinality(visited)

\* The disk and, if no call was interrupted, what it is with any one word damaged.
Suspects ==
  {disk} \cup {[disk EXCEPT ![b][w] = x] :
                 <<b, w, x>> \in IF stops = 0 THEN Block \X Word \X Damage ELSE {}}

\* Between calls, the last one interrupted anywhere or not, and with a word of the disk
\* damaged, treedisk_check() accepts the disk if and only if reads and allocations are safe
\* from each other (treedisk_chk.c:33-198 against treedisk.c:301-357 and 100-144).
\* References of the free list off the store are the exception: the checker passes over
\* them (171-173), and treedisk_alloc_block() returns them.
CheckerAgrees ==
  fs = "tree" /\ req = None => \A d \in Suspects : T!Check(d) <=> Sound(d)
=============================================================================
