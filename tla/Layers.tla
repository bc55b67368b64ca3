------------------------------- MODULE Layers -------------------------------
(***************************************************************************)
(* The small layers of src/block: what each makes of a call before it calls *)
(* the stores below.  stack is the layers from the top; the last one may    *)
(* have several stores below.  They are arrays of blocks in memory          *)
(* (ramdisk.c), in a file (filedisk.c), or other stores, whose calls may    *)
(* fail and who may lose what was not synced when the machine stops.        *)
(*                                                                         *)
(* A store below may also be a disk server (disksvr.c), reached through     *)
(* protdisk.c and the stubs of lib/block.c: it hands a read or a write to    *)
(* the device (devdisk.c), which does it at once and raises a completion     *)
(* event later; the handler of the event sends the reply.                   *)
(*                                                                         *)
(* A call reaches one store after the other.  The mirror (raid1disk.c) goes *)
(* on with the others when one fails; what it knows of failures, and what   *)
(* checkdisk.c remembers, is gone when the machine stops.                   *)
(***************************************************************************)
EXTENDS Integers, SequencesExt, FiniteSets

CONSTANTS
  Setups,        \* what to look at: a stack, a sequence of layers, and the stores below,
                 \* each "ram", "file", "server" or "other" and of nblocks blocks
  PartSizes,     \* partsizes[]
  MapIno,        \* the inode that mapdisk maps
  ProtIno,       \* the inode that protdisk asks for, for every stack
  Inos,          \* bound: inodes that calls are about
  MaxSize,       \* bound: blocks of an inode, [Inos -> Nat]
  MaxOffset,     \* bound: blocks of the largest
  Data,          \* contents of a block
  Null,          \* a block of zeros
  MaxFaults      \* bound: failures

Translate == {"map", "part", "prot", "stat", "debug", "check"}
FanOut    == {"raid0", "raid1", "combine", "one"}
AllInos   == -1

ASSUME SetupAssumption ==
  \A s \in Setups :
    /\ s.stack \in Seq(Translate \cup FanOut) /\ s.stack # <<>>
    /\ \A j \in DOMAIN s.stack : /\ s.stack[j] \in FanOut <=> j = Len(s.stack)
                                 /\ s.stack[j] \in {"check", "part"} => j = 1
    /\ s.below \in Seq({"ram", "file", "server", "other"}) /\ s.below # <<>> /\ s.nblocks \in Nat
ASSUME SizesAssumption ==
  /\ PartSizes \in Seq(Nat) /\ MapIno \in Nat
  /\ Inos \subseteq Nat /\ 0 \in Inos /\ MaxOffset \in Nat
  /\ MaxSize \in [Inos -> 0..MaxOffset]
  /\ Null \in Data /\ MaxFaults \in Nat

Stacks == {s.stack : s \in Setups}

ASSUME ProtAssumption == ProtIno \in [{s.stack : s \in Setups} -> Nat]

VARIABLES
  stack,    \* the layers
  disks,    \* the stores below
  broken,   \* raid1disk: the stores that are marked as broken
  list,     \* checkdisk: the blocks it has seen
  exited,   \* checkdisk has found a corrupted block and stopped the program
  req,      \* the call in progress
  left,     \* the places below that it has still to reach
  reply,    \* the reply that the completion event of the device will send
  result,   \* what it returns, as far as is known
  ret,      \* what the last call returned
  faults    \* history: failures of the stores below

vars == <<stack, disks, broken, list, exited, req, left, reply, result, ret, faults>>

Ok      == "ok"
Err     == "error"
None    == [call |-> "none"]
Nowhere == <<>>
NoReply == "none"
Disks   == DOMAIN disks
Bottom  == Last(stack)
Checks  == Head(stack) = "check"

-----------------------------------------------------------------------------
(* Where the layers look for block off of inode ino: below, by the same     *)
(* call.  Nowhere if they return -1 themselves.                             *)

MapDown(at)  == IF at.ino # 0 THEN Nowhere ELSE <<[at EXCEPT !.ino = MapIno]>>
ProtDown(s, at) == IF at.ino # 0 THEN Nowhere ELSE <<[at EXCEPT !.ino = ProtIno[s]]>>

\* Partition ino begins where those before it end.
PartStart(ino) == FoldLeft(LAMBDA sum, n : sum + n, 0, SubSeq(PartSizes, 1, ino))

\* (a bug: a partition begins one block too early)
PartOverlaps(at) ==
  IF at.ino \notin 0..(Len(PartSizes) - 1) \/ at.off >= PartSizes[at.ino + 1] THEN Nowhere
  ELSE <<[ino |-> 0, off |-> PartStart(at.ino) + at.off - (IF at.ino = 0 THEN 0 ELSE 1)]>>

PartDown(at) ==
  IF at.ino \notin 0..(Len(PartSizes) - 1) \/ at.off >= PartSizes[at.ino + 1] THEN Nowhere
  ELSE <<[ino |-> 0, off |-> PartStart(at.ino) + at.off]>>

\* These only count, print or remember.
StatDown(at)  == <<at>>
DebugDown(at) == <<at>>
CheckDown(at) == <<at>>

Down(s, layer, at) ==
  CASE layer = "map"   -> MapDown(at)
    [] layer = "prot"  -> ProtDown(s, at)
    [] layer = "part"  -> PartDown(at)
    [] layer = "stat"  -> StatDown(at)
    [] layer = "debug" -> DebugDown(at)
    [] layer = "check" -> CheckDown(at)

\* The stores that the last layer goes to, in its order, and where there.
Raid0Out(at) ==
  IF at.ino # 0 THEN Nowhere
  ELSE <<[disk |-> 1 + (at.off % Len(disks)), ino |-> 0, off |-> at.off \div Len(disks)]>>

Raid1Out(at) ==
  SelectSeq([d \in Disks |-> [disk |-> d, ino |-> at.ino, off |-> at.off]],
            LAMBDA p : p.disk \notin broken)

\* Each store below has one inode, and callers know how many there are.  The search for an
\* inode takes (unsigned) -1 to be in the first.
CombineOut(at) ==
  IF at.ino >= Len(disks) THEN Nowhere
  ELSE IF at.ino = AllInos THEN <<[disk |-> 1, ino |-> AllInos, off |-> at.off]>>
  ELSE <<[disk |-> 1 + at.ino, ino |-> 0, off |-> at.off]>>

Out(at) ==
  CASE Bottom = "raid0"   -> Raid0Out(at)
    [] Bottom = "raid1"   -> Raid1Out(at)
    [] Bottom = "combine" -> CombineOut(at)
    [] Bottom = "one"     -> <<[disk |-> 1, ino |-> at.ino, off |-> at.off]>>

\* Through all the layers but the last: computed once for every stack.
At      == [ino : Inos \cup {AllInos}, off : 0..(MaxOffset - 1)]
Through ==
  [s \in Stacks |-> [at \in At |->
     FoldLeft(LAMBDA p, layer : IF p = Nowhere THEN Nowhere ELSE Down(s, layer, p[1]),
              <<at>>, Front(s))]]
Under(ino, off) == Through[stack][[ino |-> ino, off |-> off]]

Places(key) ==
  LET p == Under(key[1], key[2]) IN IF p = Nowhere THEN Nowhere ELSE Out(p[1])

\* partdisk_sync() asks for inode 0, raid0disk_sync() all the stores below for all inodes.
SyncPlaces(ino) ==
  LET p == Under(IF "part" \in ToSet(stack) THEN 0 ELSE ino, 0)
  IN  IF p = Nowhere THEN Nowhere
      ELSE IF Bottom # "raid0" THEN Out(p[1])
      ELSE IF p[1].ino # 0 THEN Nowhere
      ELSE [d \in Disks |-> [disk |-> d, ino |-> AllInos, off |-> 0]]

-----------------------------------------------------------------------------
(* The size of inode ino, 0 if there is none.                               *)

Working == Disks \ broken
First   == CHOOSE d \in Working : \A e \in Working : d <= e

\* raid0disk_getsize() asks the first store only.
Raid0Size(ino) == IF ino = 0 THEN Len(disks) * disks[1].size ELSE 0

Raid1Size(ino) == IF ino = 0 /\ Working # {} THEN disks[First].size ELSE 0

CombineSize(ino) == IF ino < Len(disks) THEN disks[1 + ino].size ELSE 0

SizeAt(ino) ==
  CASE Bottom = "raid0"   -> Raid0Size(ino)
    [] Bottom = "raid1"   -> Raid1Size(ino)
    [] Bottom = "combine" -> CombineSize(ino)
    [] Bottom = "one"     -> IF ino = 0 THEN disks[1].size ELSE 0

\* partdisk_getsize() knows the answer itself.
PartSize(ino) == IF ino < Len(PartSizes) THEN PartSizes[ino + 1] ELSE 0

SizeOf(ino) ==
  LET p == Under(ino, 0)
  IN  IF "part" \in ToSet(stack) THEN PartSize(ino)
      ELSE IF p = Nowhere THEN 0 ELSE SizeAt(p[1].ino)

-----------------------------------------------------------------------------
(* The stores below.                                                        *)

\* The block at p, whatever the size of the store.  Of a file only the blocks up to
\* the last one written are read.
BlockAt(p) ==
  LET k == disks[p.disk]
  IN  IF p.off \notin DOMAIN k.blocks \/ (k.kind = "file" /\ p.off >= k.current) THEN Null
      ELSE k.blocks[p.off]

Reaches(p) == p.ino = 0 /\ p.off < disks[p.disk].size

\* ramdisk_read(), filedisk_read()
ReadDisk(p) == IF Reaches(p) THEN BlockAt(p) ELSE Err

\* ramdisk_write(), filedisk_write().  What another store keeps in a cache is not stable.
Written(p, data) ==
  [disks EXCEPT ![p.disk].blocks[p.off] = data,
                ![p.disk].current = IF p.off >= @ THEN p.off + 1 ELSE @,
                ![p.disk].stable[p.off] = IF disks[p.disk].kind = "other" THEN @ ELSE data]

\* A store below whose blocks were never written.
NewDisk(kind, n) ==
  LET none == [o \in 0..(n - 1) |-> Null]
  IN  [kind |-> kind, size |-> n, current |-> 0, blocks |-> none, stable |-> none]

-----------------------------------------------------------------------------
Init ==
  /\ \E s \in Setups :
       /\ stack = s.stack
       /\ disks = [d \in DOMAIN s.below |-> NewDisk(s.below[d], s.nblocks)]
  /\ broken = {} /\ list = <<>> /\ exited = FALSE
  /\ req = None /\ left = <<>> /\ reply = NoReply /\ result = Err /\ ret = Ok
  /\ faults = 0

Key == UNION {{i} \X (0..(MaxSize[i] - 1)) : i \in Inos}
Requests ==
  [call : {"read"}, key : Key] \cup [call : {"write"}, key : Key, data : Data]
  \cup [call : {"setsize"}, ino : Inos, size : 0..MaxOffset]
  \cup [call : {"sync"}, ino : Inos \cup {AllInos}]

\* Those that callers make (bound: writes stay within the size, and nobody syncs all inodes of
\* combinedisk, which has none to sync then).  protdisk_setsize() only asserts that it is not called.
Sensible(r) ==
  CASE r.call = "write"   -> r.key[2] < SizeOf(r.key[1])
    [] r.call = "setsize" -> SizeOf(r.ino) > 0
    [] r.call = "sync"    -> IF r.ino = AllInos THEN Bottom # "combine" ELSE r.ino = 0
    [] OTHER              -> TRUE

\* Stores that a call of setsize reaches: raid1disk_setsize() does not skip the broken
\* ones, raid0disk and partdisk cannot do it.
SetSizePlaces(ino) ==
  LET p == Under(ino, 0)
  IN  IF ToSet(stack) \cap {"raid0", "part"} # {} \/ p = Nowhere THEN Nowhere
      ELSE IF Bottom = "raid1" THEN [d \in Disks |-> [disk |-> d, ino |-> 0, off |-> 0]]
      ELSE Out(p[1])

\* checkdisk_setsize() forgets what is past the end.
CheckSetSize(ino, n) ==
  IF Checks THEN SelectSeq(list, LAMBDA b : b.key[1] # ino \/ b.key[2] < n) ELSE list

\* A call comes in, and goes through the layers that only translate.
Request ==
  /\ req = None /\ ~exited
  /\ \E r \in Requests :
       /\ Sensible(r)
       /\ r.call = "setsize" => /\ "prot" \notin ToSet(stack)
                               /\ r.size \in 0..Cardinality(DOMAIN disks[1].blocks)
       /\ req' = r
       /\ left' = CASE r.call = "sync"    -> SyncPlaces(r.ino)
                    [] r.call = "setsize" -> SetSizePlaces(r.ino)
                    [] OTHER              -> Places(r.key)
       /\ list' = IF r.call = "setsize" THEN CheckSetSize(r.ino, r.size) ELSE list
  /\ result' = Err
  /\ UNCHANGED <<stack, disks, broken, exited, reply, ret, faults>>

\* (a bug: the mirror goes on to use a store that has failed)
MirrorForgets ==
  IF Bottom # "raid1" THEN req' = None /\ ret' = Err /\ left' = <<>> /\ UNCHANGED <<broken, result>>
  ELSE left' = Tail(left) /\ UNCHANGED <<result, req, ret, broken>>

\* The first store has done its part, or has failed: then a mirror goes on with the
\* others, and unless it was a read, does not use this one any more.  Other layers return.
Done(r) == result' = r /\ left' = Tail(left) /\ UNCHANGED <<broken, req, ret>>
Failed ==
  IF Bottom # "raid1" THEN req' = None /\ ret' = Err /\ left' = <<>> /\ UNCHANGED <<broken, result>>
  ELSE /\ left' = Tail(left) /\ UNCHANGED <<result, req, ret>>
       /\ broken' = IF req.call = "read" THEN broken ELSE broken \cup {Head(left).disk}

Got(r) == result' = r /\ left' = <<>> /\ UNCHANGED <<broken, req, ret>>

AtServer == disks[Head(left).disk].kind = "server"
Calling(call) == req.call = call /\ left # <<>> /\ ~AtServer

\* A read ends with the first store that can do it.
ReadBlock ==
  /\ Calling("read")
  /\ LET r == ReadDisk(Head(left)) IN IF r = Err THEN Failed ELSE Got(r)
  /\ UNCHANGED <<stack, disks, list, exited, reply, faults>>

\* Another store may have done a write, or more, before it answers.
WriteBlock ==
  /\ Calling("write")
  /\ LET p == Head(left)
     IN  IF ~Reaches(p) THEN Failed /\ UNCHANGED disks
         ELSE /\ disks' = Written(p, req.data)
              /\ \/ Done(Ok)
                 \/ /\ disks[p.disk].kind = "other" /\ Bottom # "raid1"
                    /\ UNCHANGED <<result, left, broken, req, ret>>
  /\ UNCHANGED <<stack, list, exited, reply, faults>>

\* Those in memory and in a file only change a number, whatever the inode.
SetSizeBelow ==
  /\ Calling("setsize")
  /\ disks' = [disks EXCEPT ![Head(left).disk].size = req.size]
  /\ Done(Ok)
  /\ UNCHANGED <<stack, list, exited, reply, faults>>

\* Those in memory and in a file have nothing to do; others know their inodes only.
SyncBelow ==
  /\ Calling("sync")
  /\ LET p == Head(left)
     IN  IF disks[p.disk].kind = "other" /\ p.ino \notin {0, AllInos}
         THEN Failed /\ UNCHANGED disks
         ELSE /\ disks' = [disks EXCEPT ![p.disk].stable = disks[p.disk].blocks]
              /\ Done(Ok)
  /\ UNCHANGED <<stack, list, exited, reply, faults>>

\* What the device does with a request, and the answer its event will carry.
DeviceRead(p) == reply' = ReadDisk(p) /\ UNCHANGED disks

DeviceWrite(p) ==
  IF Reaches(p) THEN reply' = Ok /\ disks' = Written(p, req.data)
  ELSE reply' = Err /\ UNCHANGED disks

\* The disk server has one inode; disk_do_sync() has nothing to do.
DiskRead(p)  == IF p.ino = 0 THEN DeviceRead(p) ELSE reply' = Err /\ UNCHANGED disks
DiskWrite(p) == IF p.ino = 0 THEN DeviceWrite(p) ELSE reply' = Err /\ UNCHANGED disks
DiskSync     == reply' = Ok /\ UNCHANGED disks

\* The disk server takes a request.  dev_disk_read(), dev_disk_write() do it at once, or
\* find the offset too large, and schedule the completion event.
Serve ==
  /\ left # <<>> /\ AtServer /\ reply = NoReply
  /\ CASE req.call = "read"  -> DiskRead(Head(left))
       [] req.call = "write" -> DiskWrite(Head(left))
       [] req.call = "sync"  -> DiskSync
  /\ UNCHANGED <<stack, broken, list, exited, req, left, result, ret, faults>>

\* The completion event: disk_read_complete(), disk_write_complete() reply, and the
\* caller goes on.
Complete ==
  /\ reply # NoReply
  /\ CASE reply = Err       -> Failed
       [] req.call = "read" -> Got(reply)
       [] OTHER             -> Done(Ok)
  /\ reply' = NoReply
  /\ UNCHANGED <<stack, disks, list, exited, faults>>

\* A store below fails that may.
Fault ==
  /\ left # <<>> /\ faults < MaxFaults /\ reply = NoReply
  /\ disks[Head(left).disk].kind \in {"other", "server"}
  /\ Failed
  /\ faults' = faults + 1
  /\ UNCHANGED <<stack, disks, list, exited, reply>>

-----------------------------------------------------------------------------
(* checkdisk.c: on the way back.                                            *)

Listed(key) == {j \in DOMAIN list : list[j].key = key}
Entry(key, block) == [key |-> key, block |-> block]

\* checkdisk_read(): a block it knows must be what it was; else it remembers it.
CheckRead ==
  IF Listed(req.key) = {}
  THEN list' = <<Entry(req.key, result)>> \o list /\ UNCHANGED exited
  ELSE /\ exited' = \E j \in Listed(req.key) : list[j].block # result
       /\ UNCHANGED list

\* checkdisk_write()
CheckWrite ==
  list' = IF Listed(req.key) = {} THEN <<Entry(req.key, req.data)>> \o list
          ELSE [j \in DOMAIN list |-> IF list[j].key = req.key THEN Entry(req.key, req.data)
                                      ELSE list[j]]

Return ==
  /\ req # None /\ left = <<>> /\ ~exited
  /\ CASE Checks /\ req.call = "read"  /\ result # Err -> CheckRead
       [] Checks /\ req.call = "write" /\ result # Err -> CheckWrite /\ UNCHANGED exited
       [] OTHER                                        -> UNCHANGED <<list, exited>>
  /\ req' = None /\ ret' = result
  /\ UNCHANGED <<stack, disks, broken, left, reply, result, faults>>

Survives(d) ==
  {[o \in DOMAIN disks[d].blocks |-> IF o \in keep THEN disks[d].blocks[o] ELSE disks[d].stable[o]] :
     keep \in SUBSET DOMAIN disks[d].blocks}

\* The machine stops.  Of what was not synced some blocks are there, some not; of a disk
\* server's, all.  (Bound: mirrors, when they are equal: nothing in raid1disk.c brings
\* those that differ after a stop together again.)
Stop ==
  /\ \A d \in Disks : disks[d].kind \in {"other", "server"}
  /\ \/ Bottom # "raid1"
     \/ (broken = {} /\ left = <<>> /\ \A d \in Disks : disks[d].stable = disks[d].blocks)
  /\ disks' \in {[d \in Disks |-> [disks[d] EXCEPT !.blocks = kept[d], !.stable = kept[d]]] :
                 kept \in {f \in [Disks -> UNION {Survives(d) : d \in Disks}] :
                            \A d \in Disks : f[d] \in Survives(d)}}
  /\ req' = None /\ left' = <<>> /\ reply' = NoReply
  /\ broken' = {} /\ list' = <<>> /\ exited' = FALSE
  /\ UNCHANGED <<stack, result, ret, faults>>

Next ==
  \/ Request \/ ReadBlock \/ WriteBlock \/ SetSizeBelow \/ SyncBelow
  \/ Serve \/ Complete \/ Fault \/ Return \/ Stop

Spec == Init /\ [][Next]_vars

-----------------------------------------------------------------------------
(* Properties.                                                              *)

Ino      == Inos \cup {AllInos}
Place    == [disk : Disks, ino : Int, off : Nat]

TypeOK ==
  /\ stack \in Stacks
  /\ \A d \in Disks : /\ disks[d].kind \in {"ram", "file", "server", "other"}
                      /\ disks[d].size \in 0..Cardinality(DOMAIN disks[d].blocks)
                      /\ disks[d].current \in 0..Cardinality(DOMAIN disks[d].blocks)
                      /\ disks[d].blocks \in [DOMAIN disks[d].stable -> Data]
                      /\ disks[d].stable \in [DOMAIN disks[d].blocks -> Data]
  /\ broken \subseteq Disks /\ exited \in BOOLEAN
  /\ list \in Seq([key : Key, block : Data])
  /\ req \in Requests \cup {None} /\ left \in Seq(Place)
  /\ reply \in Data \cup {Ok, Err, NoReply}
  /\ result \in Data \cup {Ok, Err} /\ ret \in Data \cup {Ok, Err}
  /\ faults \in Nat

\* What a block of the stack is, now and after a stop: that of the first of the places p
\* that hold it.
Held(p) == p # Nowhere /\ p[1].ino = 0 /\ p[1].off \in DOMAIN disks[p[1].disk].blocks
Now[p \in Seq(Place)]       == IF Held(p) THEN BlockAt(p[1]) ELSE Null
AfterStop[p \in Seq(Place)] == IF Held(p) THEN disks[p[1].disk].stable[p[1].off] ELSE Null

ContentOf(key) == Now[Places(key)]
StableOf(key)  == AfterStop[Places(key)]

\* Between calls the mirrors that are not broken are the same, block for block and in
\* size: a read may take any of them (raid1disk.c:82-98).
MirrorsAgree ==
  Bottom = "raid1" /\ req = None =>
    \A d, e \in Working : disks[d].size = disks[e].size /\ disks[d].blocks = disks[e].blocks

\* What the stack is as a block store.
AsStore == [content |-> [key \in Key |-> ContentOf(key)],
            stable  |-> [key \in Key |-> StableOf(key)],
            size    |-> [i \in Inos |-> SizeOf(i)]]
=============================================================================
