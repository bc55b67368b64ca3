------------------------------ MODULE TreeDisk ------------------------------
(***************************************************************************)
(* The file system src/block/treedisk.c: inodes, trees of indirect blocks   *)
(* and a free list, in the blocks of one inode of the block store below;    *)
(* and its checker, src/block/treedisk_chk.c.                               *)
(*                                                                         *)
(* As in the union treedisk_block, a block is an array of words and what a  *)
(* word means depends on how the block was reached.  A block has R words:   *)
(* R references, or R \div 2 inodes.                                       *)
(*                                                                         *)
(* A call is a sequence of writes to the store below, worked out from what  *)
(* is on the disk when the call begins, since nothing else writes there.    *)
(***************************************************************************)
EXTENDS Integers, Sequences, SequencesExt, FiniteSets

CONSTANTS
  R,          \* REFS_PER_BLOCK
  NInodes,    \* inodes asked of treedisk_create()
  NBlocks     \* size of the store below

PerBlock     == R \div 2                                   \* INODES_PER_BLOCK
NInodeBlocks == (NInodes + PerBlock - 1) \div PerBlock
Block        == 0..(NBlocks - 1)
Word         == 0..(R - 1)
Zero         == CHOOSE z \in [Word -> {0}] : TRUE          \* the one there is

-----------------------------------------------------------------------------
(* What is on the disk d.                                                  *)

InodeBlock(i) == 1 + i \div PerBlock
RootWord(i)   == 2 * (i % PerBlock)
SizeWord(i)   == RootWord(i) + 1
Root(d, i)    == d[InodeBlock(i)][RootWord(i)]
FileSize(d, i) == d[InodeBlock(i)][SizeWord(i)]

\* treedisk_get_snapshot() finds the inode.
InodeOK(d, i) == i < d[0][0] * PerBlock

\* The levels of indirect blocks over n blocks.
Levels(n) == CHOOSE l \in 0..n : /\ R ^ l >= n \/ n = 0
                                 /\ \A m \in 0..(l - 1) : R ^ m < n /\ n # 0

\* The word of an indirect block of level l + 1 that leads to block off.
Index(off, l) == (off \div R ^ l) % R

\* treedisk_read(): the way down from the root; a reference 0 is a hole, and one off the
\* store below cannot be followed.
Way(d, i, off) ==
  LET L == Levels(FileSize(d, i))
      walk[j \in 0..L] ==
        IF j = 0 THEN Root(d, i)
        ELSE IF walk[j - 1] \notin Block \ {0} THEN 0 ELSE d[walk[j - 1]][Index(off, L - j)]
  IN  walk

Read(d, i, off) ==
  LET b == Way(d, i, off)[Levels(FileSize(d, i))] IN IF b = 0 THEN Zero ELSE d[b]

\* The blocks of a tree of level l with root b, children before their parent.
PostOrder(d, level, root) ==
  LET blocks[l \in 0..level, b \in Block] ==
        IF l = 0 THEN <<b>>
        ELSE FlattenSeq([i \in 1..R |-> IF d[b][i - 1] = 0 THEN <<>>
                                        ELSE blocks[l - 1, d[b][i - 1]]]) \o <<b>>
  IN  blocks[level, root]

-----------------------------------------------------------------------------
(* A call being worked out: d is the disk after its writes w; sb and ib are *)
(* the snapshot's superblock and inode block; b is the block last allocated;*)
(* out is "panic" after one.                                                  *)

Start(d, i) == [d |-> d, w |-> <<>>, sb |-> d[0], ib |-> d[InodeBlock(i)], b |-> 0, out |-> "ok"]

Put(a, b, block) ==
  IF a.out = "ok" THEN [a EXCEPT !.d[b] = block, !.w = Append(@, [to |-> b, block |-> block])] ELSE a

\* treedisk_alloc_block(): the last reference in the first block of the free list,
\* or that block itself.
Alloc(a) ==
  LET head  == a.sb[1]
      refs  == a.d[head]
      taken == {i \in Word \ {0} : refs[i] # 0}
      last  == CHOOSE i \in taken : \A j \in taken : j <= i
      sb    == [a.sb EXCEPT ![1] = refs[0]]
  IN  IF a.out = "panic" \/ head = 0 THEN [a EXCEPT !.out = "panic"]
      ELSE IF taken = {} THEN Put([a EXCEPT !.b = head, !.sb = sb], 0, sb)
      ELSE Put([a EXCEPT !.b = refs[last]], head, [refs EXCEPT ![last] = 0])

\* treedisk_free_block(): an empty slot in the first block of the free list, or the
\* block becomes the first of the list.
Free(a, b) ==
  LET z     == Put(a, b, Zero)
      head  == a.sb[1]
      refs  == z.d[head]
      empty == {i \in Word \ {0} : refs[i] = 0}
      first == CHOOSE i \in empty : \A j \in empty : i <= j
      sb    == [a.sb EXCEPT ![1] = b]
  IN  IF head = 0 THEN Put([z EXCEPT !.sb = sb], 0, sb)
      ELSE IF empty # {} THEN Put(z, head, [refs EXCEPT ![first] = b])
      ELSE Put(Put([z EXCEPT !.sb = sb], 0, sb), b, [Zero EXCEPT ![0] = head])

\* treedisk_setsize() to 0: free the file, then empty its inode.
SetSizeWrites(d, i) ==
  LET L == Levels(FileSize(d, i))
      a == FoldLeft(Free, Start(d, i), PostOrder(d, L, Root(d, i)))
      e == [a.ib EXCEPT ![RootWord(i)] = 0, ![SizeWord(i)] = 0]
  IN  IF FileSize(d, i) = 0 THEN Start(d, i) ELSE Put(a, InodeBlock(i), e)

\* (a bug: the old tree is dropped when a level is added on top)
NewRootIsEmpty(a, i) ==
  LET n == Alloc(a)
  IN  Put([n EXCEPT !.ib[RootWord(i)] = n.b], n.b, Zero)

\* treedisk_write(): a new root over the old one.
AddLevel(a, i) ==
  LET n == Alloc(a)
  IN  Put([n EXCEPT !.ib[RootWord(i)] = n.b], n.b, [Zero EXCEPT ![0] = a.ib[RootWord(i)]])

\* treedisk_write(): one turn of its last loop, at level l.  at is the reference that
\* leads there: the word at.word of block at.block, which sits in at.no.
Descend(s, l, off) ==
  LET b    == s.at.block[s.at.word]
      n    == Alloc(s.a)
      m    == Put(n, s.at.no, [s.at.block EXCEPT ![s.at.word] = n.b])
      word == IF l = 0 THEN 0 ELSE Index(off, l - 1)
  IN  IF b = 0 THEN [a |-> m, at |-> [no |-> n.b, block |-> Zero, word |-> word]]
      ELSE [a |-> s.a, at |-> [no |-> b, block |-> s.a.d[b], word |-> word]]

\* treedisk_write(): add levels, write the inode if it has changed, walk down to the
\* block, allocating what is not there, and write it.
WriteWrites(d, i, off, word) ==
  LET grows  == off >= FileSize(d, i)
      before == Levels(FileSize(d, i))
      after  == IF grows THEN Levels(off + 1) ELSE before
      sized  == IF grows THEN [Start(d, i) EXCEPT !.ib[SizeWord(i)] = off + 1] ELSE Start(d, i)
      grown  == FoldLeft(LAMBDA a, l : AddLevel(a, i), sized, [l \in 1..(after - before) |-> l])
      inode  == IF grows THEN Put(grown, InodeBlock(i), grown.ib) ELSE grown
      top    == [a |-> inode, at |-> [no |-> InodeBlock(i), block |-> inode.ib, word |-> RootWord(i)]]
      bottom == FoldLeft(LAMBDA s, l : Descend(s, l, off), top, [j \in 1..(after + 1) |-> after + 1 - j])
  IN  Put(bottom.a, bottom.at.no, [j \in Word |-> word])

-----------------------------------------------------------------------------
FirstFree == NInodeBlocks + 1

\* treedisk_create() and setup_freelist(): each block of the free list refers to the
\* one before and to the blocks that follow it.
Created ==
  [b \in Block |->
     [i \in Word |->
        LET head == b - ((b - FirstFree) % R)
        IN  CASE b = 0 /\ i = 0 -> NInodeBlocks
              [] b = 0 /\ i = 1 -> (NBlocks - 1) - ((NBlocks - 1 - FirstFree) % R)
              [] b >= FirstFree /\ b = head ->
                   IF i = 0 THEN (IF b = FirstFree THEN 0 ELSE b - R)
                   ELSE IF b + i \in Block THEN b + i ELSE 0
              [] OTHER -> 0]]

-----------------------------------------------------------------------------
(* Where the blocks are, for the properties, and treedisk_chk.c.            *)

\* The blocks of the free list, in its order, with repetitions if there are any.  A
\* reference off the store is passed over, one to the next block of the list is not.
FreeList(d) ==
  LET list[b \in Nat, n \in 0..NBlocks] ==
        IF b = 0 \/ n = 0 THEN <<>>
        ELSE IF b \notin Block THEN <<b>>
        ELSE <<b>> \o SelectSeq(Tail([i \in 1..R |-> d[b][i - 1]]), LAMBDA r : r \in Block \ {0})
                   \o list[d[b][0], n - 1]
  IN  list[d[0][1], NBlocks]

\* The blocks of file i, children before their parent.
FileBlocks(d, i) ==
  IF FileSize(d, i) = 0 THEN <<>> ELSE PostOrder(d, Levels(FileSize(d, i)), Root(d, i))

\* (a bug: one reference past the end of the file is looked at)
CheckPastEnd(d, i) ==
  LET size == FileSize(d, i)
      visit[l \in 0..Levels(size), b \in Nat, off \in Nat] ==
        IF b = 0 THEN <<>>
        ELSE IF l = 0 \/ b \notin Block THEN <<b>>
        ELSE <<b>> \o FlattenSeq([k \in 1..R |->
               IF k > 1 /\ off + (k - 1) * R ^ (l - 1) > size THEN <<>>
               ELSE visit[l - 1, d[b][k - 1], off + (k - 1) * R ^ (l - 1)]])
  IN  IF size = 0 THEN <<>> ELSE visit[Levels(size), Root(d, i), 0]

\* check_inode(): the blocks it marks, from the root down, leaving out what is past the
\* end of the file.
CheckInode(d, i) ==
  LET size == FileSize(d, i)
      visit[l \in 0..Levels(size), b \in Nat, off \in Nat] ==
        IF b = 0 THEN <<>>
        ELSE IF l = 0 \/ b \notin Block THEN <<b>>
        ELSE <<b>> \o FlattenSeq([k \in 1..R |->
               IF k > 1 /\ off + (k - 1) * R ^ (l - 1) >= size THEN <<>>
               ELSE visit[l - 1, d[b][k - 1], off + (k - 1) * R ^ (l - 1)]])
  IN  IF size = 0 THEN <<>> ELSE visit[Levels(size), Root(d, i), 0]

\* treedisk_check(): the superblock, which says how many inode blocks there are, makes
\* sense; no block is marked twice, none is off the store or one of the superblock and
\* the inode blocks.  A leak is only reported.
Check(d) ==
  LET n      == d[0][0]
      marked == FlattenSeq([k \in 1..(n * PerBlock) |-> CheckInode(d, k - 1)]) \o FreeList(d)
  IN  /\ 1 + n <= NBlocks
      /\ d[0][1] < NBlocks
      /\ IsInjective(marked)
      /\ ToSet(marked) \subseteq (n + 1)..(NBlocks - 1)
=============================================================================
