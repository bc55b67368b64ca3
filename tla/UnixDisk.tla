------------------------------ MODULE UnixDisk ------------------------------
(***************************************************************************)
(* The file system src/block/unixdisk.c: inodes with direct, indirect,      *)
(* double and triple indirect references, and a free list, in the blocks of *)
(* the block store below.                                                   *)
(*                                                                         *)
(* A block is R words, whose meaning depends on how the block was reached,  *)
(* as in union unixdisk_block.  References are numbers of data blocks: data *)
(* block n is block n + 1 + n_inodeblocks below.  The unsigned -1 is -1.    *)
(*                                                                         *)
(* What a call does is worked out as in TreeDisk: a sequence of writes.     *)
(***************************************************************************)
EXTENDS Integers, Sequences, SequencesExt, FiniteSets

CONSTANTS
  R,          \* ENTRIES_PER_BLOCK, words in a block
  NDirect,    \* direct references of an inode, 12 in the code
  NInodes,    \* inodes asked of unixdisk_create()
  NBlocks     \* size of the store below

InodeSize    == NDirect + 4                    \* words in struct unixdisk_inode
PerBlock     == R \div InodeSize               \* INODES_PER_BLOCK
NInodeBlocks == (NInodes + PerBlock - 1) \div PerBlock
PerFree      == R - 2                          \* ENTRIES_PER_FREE_BLOCK
NData        == NBlocks - NInodeBlocks - 1     \* n_datablocks
Block        == 0..(NBlocks - 1)
Word         == 0..(R - 1)
Zero         == CHOOSE z \in [Word -> {0}] : TRUE          \* the one there is

\* Words of the superblock after n_inodeblocks, and of a free block after nblocks.
FreeHead   == 1
FreeOffset == 2
FreeNext   == 1
FreeEntry(j) == 2 + j

\* Words of inode i in its block: size, direct references, the indirect ones.
InodeBlock(i) == 1 + i \div PerBlock
SizeWord(i)   == (i % PerBlock) * InodeSize
Direct(i, o)  == SizeWord(i) + 1 + o
Single(i)     == Direct(i, NDirect)
Double(i)     == Single(i) + 1
Triple(i)     == Single(i) + 2
FileSize(d, i) == d[InodeBlock(i)][SizeWord(i)]

\* The blocks of a file under its single, double and triple reference start here.
SingleFrom == NDirect
DoubleFrom == SingleFrom + R
TripleFrom == DoubleFrom + R * R

\* The block below of data block n.
Abs(a, n) == n + 1 + a.sb[0]

-----------------------------------------------------------------------------
(* A call being worked out: d is the disk after its writes w; sb and ib are *)
(* the snapshot's superblock and inode block; n is the data block last      *)
(* taken from the free list; out tells how the call ends.                   *)

Start(d, i) == [d |-> d, w |-> <<>>, sb |-> d[0], ib |-> d[InodeBlock(i)], n |-> -1, out |-> "ok"]

Put(a, b, block) == [a EXCEPT !.d[b] = block, !.w = Append(@, [to |-> b, block |-> block])]

\* (a bug: the superblock is not written when the offset moves)
PopKeepsOffset(a) ==
  LET head == a.sb[FreeHead]
      blk  == a.d[Abs(a, head)]
      off  == a.sb[FreeOffset]
      sb   == [a.sb EXCEPT ![FreeOffset] = off - 1]
      next == [a.sb EXCEPT ![FreeHead] = blk[FreeNext], ![FreeOffset] = PerFree]
  IN  IF head = -1 THEN [a EXCEPT !.n = -1]
      ELSE IF off > 0 THEN [a EXCEPT !.sb = sb, !.n = blk[FreeEntry(off - 1)]]
      ELSE Put([a EXCEPT !.sb = next, !.n = head], 0, next)

\* unixdisk_popfree(): the last entry of the first free block, or that block itself;
\* -1 if the list is empty.
PopFree(a) ==
  LET head == a.sb[FreeHead]
      blk  == a.d[Abs(a, head)]
      off  == a.sb[FreeOffset]
      sb   == IF off > 0 THEN [a.sb EXCEPT ![FreeOffset] = off - 1]
              ELSE [a.sb EXCEPT ![FreeHead] = blk[FreeNext], ![FreeOffset] = PerFree]
      n    == IF off > 0 THEN blk[FreeEntry(off - 1)] ELSE head
  IN  IF head = -1 THEN [a EXCEPT !.n = -1]
      ELSE Put([a EXCEPT !.sb = sb, !.n = n], 0, sb)

\* unixdisk_pushfree(): an entry of the first free block, or a new first one.  With an
\* empty list the "first" one is the last block of inodes, of which it is only a copy.
PushFree(a, n) ==
  LET off  == a.sb[FreeOffset]
      blk  == a.d[Abs(a, a.sb[FreeHead])]
      some == [a.sb EXCEPT ![FreeOffset] = off + 1]
      head == [a.sb EXCEPT ![FreeHead] = n, ![FreeOffset] = 0]
  IN  IF off < PerFree
      THEN Put(Put([a EXCEPT !.sb = some], Abs(a, a.sb[FreeHead]), [blk EXCEPT ![FreeEntry(off)] = n]),
               0, some)
      ELSE Put(Put([a EXCEPT !.sb = head], Abs(a, n), [blk EXCEPT ![FreeNext] = a.sb[FreeHead]]),
               0, head)

\* What is under data block n of an indirect tree; each entry stands for span blocks.
Entry(a, n, j) == a.d[Abs(a, n)][j]

\* unixdisk_traverse(): the block below that holds block off of inode i.  Blocks under
\* the triple reference are looked for under the double one.
Traverse(a, i, off) ==
  LET double == off - DoubleFrom
      triple == off - TripleFrom
      top    == a.ib[Double(i)]
  IN  Abs(a, CASE off < SingleFrom -> a.ib[Direct(i, off)]
               [] off \in SingleFrom..(DoubleFrom - 1) -> Entry(a, a.ib[Single(i)], off - SingleFrom)
               [] off \in DoubleFrom..(TripleFrom - 1) ->
                    Entry(a, Entry(a, top, double \div R), double % R)
               [] OTHER ->
                    Entry(a, Entry(a, Entry(a, top, triple \div (R * R)), (triple \div R) % R),
                          triple % R))

-----------------------------------------------------------------------------
(* unixdisk_alloc(): blocks size..off of the file are added, and the        *)
(* indirect blocks above them.  Fill adds blocks lo..hi, which are under    *)
(* data block n, whose tree starts at block base of the file.               *)

Least(x, y) == IF x < y THEN x ELSE y
Most(x, y)  == IF x < y THEN y ELSE x

Fill(a, size, n, base, span, lo, hi, Below(_, _, _, _, _, _)) ==
  LET step(s, j) ==
        LET from == base + j * span
            p    == IF size <= from THEN PopFree(s.a) ELSE s.a
            blk  == IF size <= from THEN [s.blk EXCEPT ![j] = p.n] ELSE s.blk
        IN  [a |-> Below(p, size, blk[j], from, Most(lo, from), Least(hi, from + span - 1)), blk |-> blk]
      js   == [k \in 1..((hi - base) \div span - (lo - base) \div span + 1) |-> (lo - base) \div span + k - 1]
      done == FoldLeft(step, [a |-> a, blk |-> a.d[Abs(a, n)]], js)
  IN  Put(done.a, Abs(a, n), done.blk)

DataBlock(a, size, n, base, lo, hi) == a
Fill1(a, size, n, base, lo, hi) == Fill(a, size, n, base, 1, lo, hi, DataBlock)
Fill2(a, size, n, base, lo, hi) == Fill(a, size, n, base, R, lo, hi, Fill1)
Fill3(a, size, n, base, lo, hi) == Fill(a, size, n, base, R * R, lo, hi, Fill2)

\* A section of the file, blocks from..to, under the reference in word ref of the inode:
\* a block for it if the section was empty.  Fill goes on at the reference in word use.
Section(a, size, off, from, to, ref, use, Filled(_, _, _, _, _, _)) ==
  LET p == PopFree(a)
      r == IF size <= from THEN [p EXCEPT !.ib[ref] = p.n] ELSE a
  IN  IF off < from \/ size > to THEN a
      ELSE Filled(r, size, r.ib[use], from, Most(size, from), Least(off, to))

AllocDirect(a, i, size, off) ==
  LET add(s, o) == LET p == PopFree(s) IN [p EXCEPT !.ib[Direct(i, o)] = p.n]
  IN  FoldLeft(add, a, [k \in 1..(Least(off, NDirect - 1) - size + 1) |-> size + k - 1])

AllocFile(a, i, off) ==
  LET size   == a.ib[SizeWord(i)]
      direct == AllocDirect(a, i, size, off)
      single == Section(direct, size, off, SingleFrom, DoubleFrom - 1, Single(i), Single(i), Fill1)
      double == Section(single, size, off, DoubleFrom, TripleFrom - 1, Double(i), Double(i), Fill2)
      triple == Section(double, size, off, TripleFrom, TripleFrom + R * R * R - 1,
                        Triple(i), Double(i), Fill3)
      ib     == [triple.ib EXCEPT ![SizeWord(i)] = off + 1]
  IN  Put([triple EXCEPT !.ib = ib], InodeBlock(i), ib)

\* unixdisk_write()
WriteWrites(d, i, off, word) ==
  LET s == Start(d, i)
      a == IF off >= FileSize(d, i) THEN AllocFile(s, i, off) ELSE s
  IN  Put(a, Traverse(a, i, off), [j \in Word |-> word])

-----------------------------------------------------------------------------
(* unixdisk_free_file(): the blocks from base to last of the file that are  *)
(* under data block n, the indirect ones after what they lead to.           *)

Drop(a, n, base, span, last, Below(_, _, _, _)) ==
  LET blk == a.d[Abs(a, n)]
      step(s, j) ==
        LET from == base + j * span
        IN  PushFree(Below(s, blk[j], from, Least(last, from + span - 1)), blk[j])
  IN  FoldLeft(step, a, [k \in 1..((last - base) \div span + 1) |-> k - 1])

Drop0(a, n, base, last) == a
Drop1(a, n, base, last) == Drop(a, n, base, 1, last, Drop0)
Drop2(a, n, base, last) == Drop(a, n, base, R, last, Drop1)
Drop3(a, n, base, last) == Drop(a, n, base, R * R, last, Drop2)

FreeFile(a, i) ==
  LET last   == a.ib[SizeWord(i)] - 1
      direct == FoldLeft(LAMBDA s, o : PushFree(s, s.ib[Direct(i, o)]), a,
                         [k \in 1..(Least(last, NDirect - 1) + 1) |-> k - 1])
      under(s, from, to, ref, use, Dropped(_, _, _, _)) ==
        IF last < from THEN s
        ELSE PushFree(Dropped(s, s.ib[use], from, Least(last, to)), s.ib[ref])
      single == under(direct, SingleFrom, DoubleFrom - 1, Single(i), Single(i), Drop1)
      double == under(single, DoubleFrom, TripleFrom - 1, Double(i), Double(i), Drop2)
      triple == under(double, TripleFrom, TripleFrom + R * R * R - 1, Triple(i), Double(i), Drop3)
      ib     == [a.ib EXCEPT ![SizeWord(i)] = 0]
  IN  Put(triple, InodeBlock(i), ib)

\* unixdisk_setsize() to 0
SetSizeWrites(d, i) ==
  IF FileSize(d, i) = 0 THEN Start(d, i) ELSE FreeFile(Start(d, i), i)

\* unixdisk_read()
Read(d, i, off) == d[Traverse(Start(d, i), i, off)]

-----------------------------------------------------------------------------
\* The first free block takes what does not fill whole ones.
Remainder == NData % (PerFree + 1)

\* Data block n when unixdisk_create() is done; what it leaves as it was is 0 here.
CreatedFree(n) ==
  LET full  == n >= Remainder /\ (n - Remainder) % (PerFree + 1) = 0
      after == n + PerFree + 1
  IN  CASE n = 0 -> [w \in Word |->
             CASE w = 0 -> Remainder - 1
               [] w = FreeNext -> IF NData > Remainder THEN Remainder ELSE -1
               [] OTHER -> IF w - 2 < Remainder - 1 THEN w - 1 ELSE 0]
        [] n # 0 /\ full -> [w \in Word |->
             CASE w = 0 -> PerFree
               [] w = FreeNext -> IF after < NData THEN after ELSE -1
               [] OTHER -> n + w - 1]
        [] OTHER -> Zero

\* unixdisk_create() on a store that is all zeros
Created ==
  [b \in Block |->
     CASE b = 0 -> [Zero EXCEPT ![0] = NInodeBlocks, ![FreeOffset] = Remainder - 1]
       [] b \in 1..NInodeBlocks -> Zero
       [] OTHER -> CreatedFree(b - 1 - NInodeBlocks)]

-----------------------------------------------------------------------------
(* Where the blocks are, for the properties.                                *)

FreeList(d) ==
  LET s == Start(d, 0)
      list[n \in -1..(NData - 1), k \in 0..NData] ==
        IF n = -1 \/ k = 0 THEN <<>>
        ELSE LET entries == IF n = d[0][FreeHead] /\ k = NData THEN d[0][FreeOffset] ELSE PerFree
             IN  <<Abs(s, n)>> \o [j \in 1..entries |-> Abs(s, Entry(s, n, FreeEntry(j - 1)))]
                               \o list[Entry(s, n, FreeNext), k - 1]
  IN  list[d[0][FreeHead], NData]

\* The blocks of the file, and the indirect blocks that are over any of them.
FileBlocks(d, i) ==
  LET s    == Start(d, i)
      size == FileSize(d, i)
      data == [o \in 1..size |-> Traverse(s, i, o - 1)]
      one  == IF size > SingleFrom THEN <<Abs(s, s.ib[Single(i)])>> ELSE <<>>
      two  == IF size > DoubleFrom
              THEN <<Abs(s, s.ib[Double(i)])>>
                   \o [j \in 1..((size - DoubleFrom + R - 1) \div R) |->
                         Abs(s, Entry(s, s.ib[Double(i)], j - 1))]
              ELSE <<>>
  IN  data \o one \o two
=============================================================================
