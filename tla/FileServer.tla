----------------------------- MODULE FileServer -----------------------------
(***************************************************************************)
(* The block file server (apps/bfs.c) on the block server (apps/blocksvr.c, *)
(* here with treedisk), their stubs (lib/file.c, lib/block.c) and the sync  *)
(* server.  The file server keeps a control block (FCB) for every inode in  *)
(* a cache and, as an array, in inode 0; a request becomes some requests to *)
(* the block server, which nobody else uses.  The machine may stop between  *)
(* them, and what was written then is on the disk.  (If nothing since the   *)
(* last sync is, that is the state of a stop right after that sync.)        *)
(***************************************************************************)
EXTENDS Integers, Sequences, SequencesExt, FiniteSets, FiniteSetsExt

CONSTANTS
  Clients,       \* processes with files
  Uid,           \* their users; 0 may do everything
  Ops,           \* the operations they use
  NFcbs,         \* num_fcbs: inodes of the block server
  FcbsPerBlock,  \* BLOCK_SIZE / sizeof(struct file_control_block)
  BlockSize,     \* BLOCK_SIZE, in cells of data
  Modes,         \* permissions: sets of "ownerRead", "ownerWrite", "otherRead", "otherWrite"
  Texts,         \* what is written: sequences of cells
  Zero,          \* an empty cell
  MaxSize,       \* bound on the size of a file in cells
  MaxFaults,     \* bound on the times the disk is full
  MaxQueue,      \* bound on the requests that wait: a client that got the answer to another
                 \* request of its (see DoSetSize) has more than one of them
  All, None, Unknown

File     == 0..NFcbs - 1
Cell     == 0..MaxSize - 1
NBlocks0 == (NFcbs - 1) \div FcbsPerBlock + 1    \* blocks of the array

ASSUME SizeAssumption ==
  /\ NFcbs \in Nat \ {0} /\ FcbsPerBlock \in Nat \ {0} /\ BlockSize \in Nat \ {0}
  /\ MaxSize \in Nat /\ MaxFaults \in Nat
ASSUME UidAssumption == Uid \in [Clients -> Nat]
ASSUME TextAssumption == \A t \in Texts : Len(t) \in Nat
ASSUME NumberAssumption == All \notin Nat

VARIABLES
  client,   \* client[c]: the request it waits for, or None
  queue,    \* requests for the file server: those of these clients
  fcb,      \* fcb_cache
  job,      \* what the file server has still to do, "boot" first
  store,    \* the block server: the blocks of its inodes
  faults,
  expect    \* history: what is known of the cells of the files

vars == <<client, queue, fcb, job, store, faults, expect>>

Free    == [alloc |-> FALSE, size |-> 0, uid |-> 0, mode |-> {}]
Nothing == [f \in File |-> [x \in Cell |-> Unknown]]
Error   == "FILE_ERROR"
Ok      == "FILE_OK"

-----------------------------------------------------------------------------
(* The block server.                                                        *)

Zeros == [x \in 1..BlockSize |-> Zero]

\* block_do_write(): holes before a block read as zeros.
Written(ino, b, block) ==
  [store EXCEPT ![ino] = [i \in 1..(IF b < Len(@) THEN Len(@) ELSE b + 1) |->
     IF i = b + 1 THEN block ELSE IF i <= Len(@) THEN @[i] ELSE Zeros]]

\* block_do_setsize(): treedisk can only empty a file.
CanResize(ino, n) == n \in {0, Len(store[ino])}
Resized(ino, n)   == [store EXCEPT ![ino] = SubSeq(@, 1, n)]

\* multiblock_read(): how many of n blocks can be read from b on.
Readable(ino, b, n) == IF Len(store[ino]) - b < n THEN Len(store[ino]) - b ELSE n

-----------------------------------------------------------------------------
(* What the file server does for a request, as a sequence of steps.         *)

Write(ino, b, block) == [do |-> "write", ino |-> ino, at |-> b, block |-> block]
SetSize(ino, n)      == [do |-> "setsize", ino |-> ino, size |-> n]
Update(f, r)         == [do |-> "update", file |-> f, fcb |-> r, cells |-> expect[f]]
Resize(f, n, m)      == [do |-> "update", file |-> f, fcb |-> [fcb[f] EXCEPT !.size = n], cells |-> m]
Flush(b, n)          == [do |-> "flush", at |-> b, count |-> n]
Reply(r, status, data) == [do |-> "reply", to |-> r, status |-> status, data |-> data]

\* (a bug: the array is not written)
FlushNothing(f) == Flush(0, 0)

\* flush_fcb_cache(): from the block of file f, as many blocks as its number says.
FlushFcb(f) == Flush(f \div FcbsPerBlock, f \div FcbsPerBlock + 1)

Refused(r) == <<Reply(r, Error, <<>>)>>

\* blkfile_read_allowed(), blkfile_write_allowed()
Allowed(f, uid, owner, other) ==
  uid = 0 \/ (IF uid = fcb[f].uid THEN owner ELSE other) \in fcb[f].mode
ReadAllowed(f, uid)  == Allowed(f, uid, "ownerRead", "otherRead")
WriteAllowed(f, uid) == Allowed(f, uid, "ownerWrite", "otherWrite")

Exists(r) == r.file \in File /\ fcb[r.file].alloc

\* blkfile_do_create(): st_size stays what it was.
Create(r) ==
  LET free == {f \in File \ {0} : ~fcb[f].alloc}
      f    == Min(free)
  IN  IF free = {} THEN Refused(r)
      ELSE <<Update(f, [fcb[f] EXCEPT !.alloc = TRUE, !.uid = r.uid, !.mode = r.mode]),
             FlushFcb(f), Reply(r, Ok, <<>>)>>

\* blkfile_do_delete(): so it does here.
Delete(r) ==
  IF r.file \notin File THEN Refused(r)
  ELSE IF ~WriteAllowed(r.file, r.uid) THEN Refused(r)
  ELSE IF ~fcb[r.file].alloc THEN <<Reply(r, Ok, <<>>)>>
  ELSE <<Update(r.file, [fcb[r.file] EXCEPT !.alloc = FALSE]), FlushFcb(r.file),
         SetSize(r.file, 0), Reply(r, Ok, <<>>)>>

\* blkfile_do_chown(), blkfile_do_chmod()
Chown(r) ==
  IF ~Exists(r) \/ r.uid # 0 THEN Refused(r)
  ELSE <<Update(r.file, [fcb[r.file] EXCEPT !.uid = r.owner]), FlushFcb(r.file), Reply(r, Ok, <<>>)>>
Chmod(r) ==
  IF ~Exists(r) THEN Refused(r)
  ELSE IF r.uid \notin {0, fcb[r.file].uid} THEN Refused(r)
  ELSE <<Update(r.file, [fcb[r.file] EXCEPT !.mode = r.mode]), FlushFcb(r.file), Reply(r, Ok, <<>>)>>

\* blkfile_do_stat()
Stat(r) ==
  IF ~Exists(r) THEN Refused(r)
  ELSE IF ~ReadAllowed(r.file, r.uid) THEN Refused(r)
  ELSE <<Reply(r, Ok, <<fcb[r.file].size>>)>>

\* blkfile_do_sync(); block_do_sync() only syncs everything.  The blocks are then on the disk.
Sync(r) == IF r.file = All THEN <<Reply(r, Ok, <<>>)>> ELSE Refused(r)

\* blkfile_do_read(); of no cells: whether the file exists.
Read(r) ==
  IF ~Exists(r) THEN Refused(r)
  ELSE IF ~ReadAllowed(r.file, r.uid) THEN Refused(r)
  ELSE LET size  == fcb[r.file].size
           n     == IF size - r.offset < r.size THEN size - r.offset ELSE r.size
           first == r.offset \div BlockSize
           count == (r.offset + n - 1) \div BlockSize - first + 1
           cells == FlattenSeq(SubSeq(store[r.file], first + 1, first + count))
           skip  == r.offset % BlockSize
       IN  IF r.size = 0 \/ n <= 0 THEN <<Reply(r, Ok, <<>>)>>
           ELSE IF Readable(r.file, first, count) # count THEN Refused(r)
           ELSE <<Reply(r, Ok, SubSeq(cells, skip + 1, skip + n))>>

\* (a bug: the blocks are not read first)
PutUnread(r, first, last) ==
  [i \in 1..last - first + 1 |-> [x \in 1..BlockSize |->
     LET t == (i - 1) * BlockSize + x - (r.offset % BlockSize)
     IN  IF t \in 1..Len(r.text) THEN r.text[t] ELSE Zero]]

\* blkfile_put(): the blocks it reads, changed and to be written from block first to last.
Put(r, first, last) ==
  LET size  == fcb[r.file].size
      upto  == IF r.offset + Len(r.text) > size THEN size \div BlockSize ELSE last
      got   == IF size = 0 \/ first > size \div BlockSize THEN 0
               ELSE Readable(r.file, first, upto - first + 1)
      old   == [i \in 1..last - first + 1 |->
                  IF i <= got THEN store[r.file][first + i] ELSE Zeros]
      skip  == r.offset % BlockSize
      new(i, x) == (i - 1) * BlockSize + x - skip    \* place in the text
  IN  [i \in DOMAIN old |-> [x \in 1..BlockSize |->
         IF new(i, x) \in 1..Len(r.text) THEN r.text[new(i, x)] ELSE old[i][x]]]

\* What is known after a write: what was, the text, and nothing between.
Learnt(r, size) ==
  [x \in Cell |-> IF x - r.offset \in 0..Len(r.text) - 1 THEN r.text[x - r.offset + 1]
                  ELSE IF x < size THEN expect[r.file][x] ELSE Unknown]

\* blkfile_do_write()
WriteFile(r) ==
  IF ~Exists(r) THEN Refused(r)
  ELSE IF ~WriteAllowed(r.file, r.uid) THEN Refused(r)
  ELSE LET size  == fcb[r.file].size
           end   == r.offset + Len(r.text)
           final == IF end > size THEN end ELSE size
           first == r.offset \div BlockSize
           last  == end \div BlockSize
       IN  IF /\ first <= size \div BlockSize
              /\ size # 0
              /\ Readable(r.file, first, 1) < 1
           THEN Refused(r)
           ELSE [i \in 1..last - first + 1 |->
                   Write(r.file, first + i - 1, Put(r, first, last)[i])]
                \o <<Resize(r.file, final, Learnt(r, size)), FlushFcb(r.file), Reply(r, Ok, <<>>)>>

\* blkfile_do_setsize()
SetFileSize(r) ==
  IF ~Exists(r) THEN Refused(r)
  ELSE IF r.size > fcb[r.file].size \/ ~WriteAllowed(r.file, r.uid) THEN Refused(r)
  ELSE <<SetSize(r.file, IF r.size = 0 THEN 0 ELSE 1 + r.size \div BlockSize),
         Resize(r.file, r.size, [x \in Cell |-> IF x < r.size THEN expect[r.file][x] ELSE Unknown]),
         FlushFcb(r.file), Reply(r, Ok, <<>>)>>

Steps(r) ==
  CASE r.op = "create"  -> Create(r)
    [] r.op = "delete"  -> Delete(r)
    [] r.op = "chown"   -> Chown(r)
    [] r.op = "chmod"   -> Chmod(r)
    [] r.op = "read"    -> Read(r)
    [] r.op = "write"   -> WriteFile(r)
    [] r.op = "sync"    -> Sync(r)
    [] r.op = "stat"    -> Stat(r)
    [] r.op = "setsize" -> SetFileSize(r)

-----------------------------------------------------------------------------
(* The FCB array.                                                           *)

\* Block b of it as the cache has it; the memory after the cache is anything.
CacheBlock(b) ==
  IF b < NBlocks0
  THEN [i \in 0..FcbsPerBlock - 1 |->
          IF b * FcbsPerBlock + i \in File THEN fcb[b * FcbsPerBlock + i] ELSE Free]
  ELSE "memory"

\* blkfile_proc() of a disk without an array: that of an empty file system.
Formatted == [f \in File |-> [Free EXCEPT !.alloc = (f = 0)]]

\* load_fcb_cache(): an array of another size is not read.
Loaded(blocks) ==
  IF Len(blocks) # NBlocks0 THEN Formatted
  ELSE [f \in File |-> blocks[f \div FcbsPerBlock + 1][f % FcbsPerBlock]]

-----------------------------------------------------------------------------
(* Clients.                                                                 *)

\* File 0, the array, is nobody's; a number that no file has is refused as one that is not
\* allocated (a delete apart).
Number == 1..NFcbs - 1

Requests(c) ==
  LET me == Uid[c]
  IN  {q \in
         {[client |-> c, uid |-> me, op |-> "create", mode |-> m] : m \in Modes}
         \cup {[client |-> c, uid |-> me, op |-> "delete", file |-> f] : f \in Number \cup {NFcbs}}
         \cup {[client |-> c, uid |-> me, op |-> "stat", file |-> f] : f \in Number}
         \cup {[client |-> c, uid |-> me, op |-> "sync", file |-> f] : f \in {1, All}}
         \cup {[client |-> c, uid |-> me, op |-> "chown", file |-> f, owner |-> u] :
                 f \in Number, u \in Range(Uid)}
         \cup {[client |-> c, uid |-> me, op |-> "chmod", file |-> f, mode |-> m] :
                 f \in Number, m \in Modes}
         \cup {[client |-> c, uid |-> me, op |-> "read", file |-> f, offset |-> x, size |-> BlockSize] :
                 f \in Number, x \in Cell}
         \cup {[client |-> c, uid |-> me, op |-> "read", file |-> f, offset |-> 0, size |-> 0] :
                 f \in Number}
         \cup {[client |-> c, uid |-> me, op |-> "write", file |-> f, offset |-> x, text |-> t] :
                 f \in Number, x \in Cell, t \in Texts}
         \cup {[client |-> c, uid |-> me, op |-> "setsize", file |-> f, size |-> n] :
                 f \in Number, n \in {0, BlockSize}}
       : q.op \in Ops[c]}

\* file_create() and the others: sys_rpc() of a request.
Request(c, r) ==
  /\ client[c] = None
  /\ Len(queue) < MaxQueue
  /\ r.op = "write" => r.offset + Len(r.text) <= MaxSize
  /\ client' = [client EXCEPT ![c] = r]
  /\ queue' = Append(queue, r)
  /\ UNCHANGED <<fcb, job, store, faults, expect>>

-----------------------------------------------------------------------------
(* The file server.                                                         *)

\* It receives a request.
Receive ==
  /\ job = <<>>
  /\ queue # <<>>
  /\ job' = Steps(Head(queue))
  /\ queue' = Tail(queue)
  /\ UNCHANGED <<client, fcb, store, faults, expect>>

At(do) == job # <<>> /\ Head(job).do = do

DoUpdate ==
  /\ At("update")
  /\ fcb' = [fcb EXCEPT ![Head(job).file] = Head(job).fcb]
  /\ expect' = [expect EXCEPT ![Head(job).file] = Head(job).cells]
  /\ job' = Tail(job)
  /\ UNCHANGED <<client, queue, store, faults>>

\* block_write(): until all of them are written nothing is known of the file.
DoWrite ==
  /\ At("write")
  /\ store' = Written(Head(job).ino, Head(job).at, Head(job).block)
  /\ expect' = [expect EXCEPT ![Head(job).ino] = Nothing[Head(job).ino]]
  /\ job' = Tail(job)
  /\ UNCHANGED <<client, queue, fcb, faults>>

\* The disk is full: what the request did stays, the rest is not done.
DoWriteFails ==
  /\ At("write")
  /\ faults < MaxFaults
  /\ Head(job).at >= Len(store[Head(job).ino])
  /\ faults' = faults + 1
  /\ job' = Refused(Last(job).to)
  /\ UNCHANGED <<client, queue, fcb, store, expect>>

\* multiblock_write() of the array, block by block.
DoFlush ==
  /\ At("flush")
  /\ LET s == Head(job)
     IN  IF s.count = 0 THEN job' = Tail(job) /\ UNCHANGED store
         ELSE /\ store' = Written(0, s.at, CacheBlock(s.at))
              /\ job' = <<Flush(s.at + 1, s.count - 1)>> \o Tail(job)
  /\ UNCHANGED <<client, queue, fcb, faults, expect>>

\* block_setsize(): if it fails the client is told so, and the request goes on.
DoSetSize ==
  /\ At("setsize")
  /\ LET s == Head(job)
     IN  IF CanResize(s.ino, s.size)
         THEN /\ store' = Resized(s.ino, s.size)
              /\ expect' = IF s.size = 0 THEN [expect EXCEPT ![s.ino] = Nothing[s.ino]] ELSE expect
              /\ job' = Tail(job)
         ELSE /\ job' = Refused(Last(job).to) \o Tail(job)
              /\ UNCHANGED <<store, expect>>
  /\ UNCHANGED <<client, queue, fcb, faults>>

\* (a bug: no answer)
ReplyLost ==
  /\ At("reply")
  /\ job' = Tail(job)
  /\ UNCHANGED <<client, queue, fcb, store, faults, expect>>

\* sys_send(): the kernel drops a reply to a process that does not wait for one.
DoReply ==
  /\ At("reply")
  /\ client' = [client EXCEPT ![Head(job).to.client] = None]
  /\ job' = Tail(job)
  /\ UNCHANGED <<queue, fcb, store, faults, expect>>

\* The machine stops.
Crash ==
  /\ job # <<[do |-> "boot"]>>
  /\ client' = [c \in Clients |-> None]
  /\ queue' = <<>>
  /\ fcb' = [f \in File |-> Free]
  /\ job' = <<[do |-> "boot"]>>
  /\ UNCHANGED <<store, faults, expect>>

\* blkfile_proc(): the array is loaded, or made.
Boot ==
  /\ At("boot")
  /\ fcb' = Loaded(store[0])
  /\ job' = IF Len(store[0]) = NBlocks0 THEN <<>> ELSE <<Flush(0, NBlocks0)>>
  /\ expect' = IF Len(store[0]) = NBlocks0 THEN expect ELSE Nothing
  /\ UNCHANGED <<client, queue, store, faults>>

Init ==
  /\ client = [c \in Clients |-> None]
  /\ queue = <<>>
  /\ fcb = [f \in File |-> Free]
  /\ job = <<[do |-> "boot"]>>
  /\ store = [f \in File |-> <<>>]
  /\ faults = 0
  /\ expect = Nothing

Server ==
  \/ Receive \/ DoUpdate \/ DoWrite \/ DoWriteFails \/ DoFlush \/ DoSetSize
  \/ DoReply \/ Boot

Next ==
  \/ \E c \in Clients : \E r \in Requests(c) : Request(c, r)
  \/ Server
  \/ Crash

Spec     == Init /\ [][Next]_vars
FairSpec == Spec /\ WF_vars(Server)

-----------------------------------------------------------------------------
(* Properties.                                                              *)

TypeOK ==
  /\ \A c \in Clients : client[c] # None => client[c] \in Requests(c)
  /\ \A i \in DOMAIN queue : queue[i].client \in Clients
  /\ fcb \in [File -> [alloc : BOOLEAN, size : 0..MaxSize, uid : Range(Uid) \cup {0},
                       mode : Modes \cup {{}}]]
  /\ \A f \in File \ {0} : \A i \in DOMAIN store[f] : DOMAIN store[f][i] = 1..BlockSize
  /\ faults \in 0..MaxFaults

\* "They are kept as an array in i-node 0.  fcb_cache is an in-memory cache of all these FCBs"
\* (bfs.c:24): between requests, a restart would load what the server has in its cache.
CacheIsSaved == job = <<>> => Loaded(store[0]) = fcb

\* A read returns what was last written, for every cell of the file of which that is known: writes
\* of part of a block keep the rest (blkfile_put()), the other files' blocks are not touched, and
\* that is still so after a restart.
ReadIsWritten ==
  \A i \in DOMAIN job :
    LET s == job[i]
    IN  s.do = "reply" /\ s.to.op = "read" /\ s.status = Ok =>
          \A x \in DOMAIN s.data :
            expect[s.to.file][s.to.offset + x - 1] \in {Unknown, s.data[x]}

\* A client that waits gets an answer, whatever fails (or the machine stops).
Answered == \A c \in Clients : client[c] # None ~> client[c] = None
=============================================================================
