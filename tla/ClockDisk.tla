------------------------------ MODULE ClockDisk ------------------------------
(***************************************************************************)
(* The caching layers src/block/clockdisk.c (write-back, the one the block  *)
(* server stacks on the disk) and src/block/wtclockdisk.c (write-through),  *)
(* with the disk below.  The two differ in the dirty bits and in the write  *)
(* to the disk that ends every wtclockdisk_write(); wt says which one it is.*)
(*                                                                         *)
(* The block server runs one call at a time, but every access to the disk   *)
(* is a request to the disk server: calls are split there, since the        *)
(* machine can stop in between and lose the cache.  op is what the call in   *)
(* progress has still to do.                                               *)
(***************************************************************************)
EXTENDS Integers, FiniteSets

CONSTANTS
  Inos,       \* inodes of the disk below
  MaxSize,    \* bound: blocks per inode, [Inos -> Nat]
  Data,       \* contents of a block
  NBlocks,    \* nblocks, blocks in the cache
  SyncInos,   \* the inodes the caller passes to sync
  Faulty,     \* calls of the disk that may fail
  MaxFaults   \* bound: how many do

VARIABLES
  wt,         \* TRUE for wtclockdisk
  cache,      \* blocks[] and metadatas[]
  recent,     \* slots whose recent_bit is set
  clock_hand,
  req,        \* the call being served
  op,         \* how far it has got
  disk,       \* contents of the disk below
  size,       \* its size
  ret,        \* what the last call returned
  faults      \* how many disk calls failed

vars == <<wt, cache, recent, clock_hand, req, op, disk, size, ret, faults>>

Slot  == 0..(NBlocks - 1)
Empty == [use |-> 0]                 \* use_bit = 0

AllInos == -1                        \* (unsigned int) -1
Key     == UNION {{i} \X (0..(MaxSize[i] - 1)) : i \in Inos}
Size    == {f \in [Inos -> UNION {0..MaxSize[i] : i \in Inos}] :
              \A i \in Inos : f[i] <= MaxSize[i]}
Ok      == "ok"
Err     == "error"
Call    == {"read", "evict", "through", "setsize", "sync"}

ASSUME InoAssumption   == Inos \subseteq Nat
ASSUME SizeAssumption  == MaxSize \in [Inos -> Nat]
ASSUME DataAssumption  == Data # {}
ASSUME CacheAssumption == NBlocks \in Nat \ {0}
ASSUME CallAssumption  == SyncInos \subseteq Inos \cup {AllInos} /\ Faulty \subseteq Call
ASSUME BoundAssumption == MaxFaults \in Nat

Entry == [use : {1}, key : Key, data : Data, dirty : BOOLEAN]

None     == [call |-> "none"]
Reads    == [call : {"read"}, key : Key]
Writes   == [call : {"write"}, key : Key, data : Data]
SetSizes == UNION {[call : {"setsize"}, ino : {i}, size : 0..MaxSize[i]] : i \in Inos}
Syncs    == [call : {"sync"}, ino : SyncInos]
Requests == Reads \cup Writes \cup SetSizes \cup Syncs

At(where) == [at |-> where]
Op == [at : {"start", "through"}]
      \cup [at : {"evict", "fill"}, data : Data]   \* the block to put in a slot
      \cup [at : {"sync"}, slot : 0..NBlocks]      \* the slot to look at

-----------------------------------------------------------------------------
Used(s)       == cache[s].use = 1
Holds(s, key) == Used(s) /\ cache[s].key = key
Cached(key)   == \E s \in Slot : Holds(s, key)
Dirty(s)      == Used(s) /\ cache[s].dirty

\* The search that starts clockdisk_read() and clockdisk_write().
Find(key) == CHOOSE s \in Slot :
               Holds(s, key) /\ \A t \in Slot : Holds(t, key) => s <= t

\* How far the hand has to move to reach slot s.
Ahead(s) == (s - clock_hand) % NBlocks

\* Where the hand stops: at the first slot that is not recent, or back where
\* it was.  It takes the recent bits it passes.
Victim ==
  IF Slot \subseteq recent THEN clock_hand
  ELSE CHOOSE s \in Slot \ recent : \A t \in Slot \ recent : Ahead(s) <= Ahead(t)

StillRecent ==
  IF Slot \subseteq recent THEN {}
  ELSE {s \in recent : Ahead(s) > Ahead(Victim)}

\* A call of the disk that succeeds, or fails.
Works       == faults' = faults
Fails(call) == call \in Faulty /\ faults < MaxFaults /\ faults' = faults + 1

\* The call in progress ends, or goes on at another place.
Return(result) == req' = None /\ op' = At("start") /\ ret' = result
GoTo(place)    == req' = req /\ op' = place /\ ret' = ret

Serves(call) == req.call = call /\ op.at = "start"
InRange(key) == key[2] < size[key[1]]

-----------------------------------------------------------------------------
\* clockdisk_init() on a disk with anything on it.
Init ==
  /\ wt \in BOOLEAN
  /\ cache = [s \in Slot |-> Empty]
  /\ recent = {}
  /\ clock_hand = 0
  /\ req = None
  /\ op = At("start")
  /\ disk \in [Key -> Data]
  /\ size \in Size
  /\ ret = Ok
  /\ faults = 0

\* A call from the layer above, which writes within the size of the inode.
Request ==
  /\ req = None /\ req' \in Requests
  /\ req'.call = "write" => InRange(req'.key)
  /\ UNCHANGED <<wt, cache, recent, clock_hand, op, disk, size, ret, faults>>

ReadHit ==
  /\ Serves("read") /\ Cached(req.key)
  /\ Return(cache[Find(req.key)].data)
  /\ UNCHANGED <<wt, cache, recent, clock_hand, disk, size, faults>>

ReadMiss ==
  /\ Serves("read") /\ ~Cached(req.key) /\ InRange(req.key) /\ Works
  /\ GoTo([at |-> "evict", data |-> disk[req.key]])
  /\ UNCHANGED <<wt, cache, recent, clock_hand, disk, size>>

ReadFails ==
  /\ Serves("read") /\ ~Cached(req.key)
  /\ IF InRange(req.key) THEN Fails("read") ELSE Works
  /\ Return(Err)
  /\ UNCHANGED <<wt, cache, recent, clock_hand, disk, size>>

\* (a bug: wtclockdisk_write() returns when the block is in the cache)
HitStaysInCache ==
  /\ Serves("write") /\ Cached(req.key)
  /\ cache' = [cache EXCEPT ![Find(req.key)].data = req.data,
                            ![Find(req.key)].dirty = ~wt]
  /\ Return(Ok)
  /\ UNCHANGED <<wt, recent, clock_hand, disk, size, faults>>

WriteHit ==
  /\ Serves("write") /\ Cached(req.key)
  /\ cache' = [cache EXCEPT ![Find(req.key)].data = req.data,
                            ![Find(req.key)].dirty = ~wt]
  /\ IF wt THEN GoTo(At("through")) ELSE Return(Ok)
  /\ UNCHANGED <<wt, recent, clock_hand, disk, size, faults>>

WriteMiss ==
  /\ Serves("write") /\ ~Cached(req.key)
  /\ GoTo([at |-> "evict", data |-> req.data])
  /\ UNCHANGED <<wt, cache, recent, clock_hand, disk, size, faults>>

\* (a bug: the slot is reused without writing it back)
EvictDropsDirty ==
  /\ op.at = "evict"
  /\ clock_hand' = Victim
  /\ recent' = StillRecent
  /\ cache' = [cache EXCEPT ![Victim] = Empty]
  /\ GoTo([at |-> "fill", data |-> op.data])
  /\ UNCHANGED <<wt, disk, size, faults>>

\* cache_update(): move the hand and write back what is in the slot.  A write
\* that fails is not noticed.  The slot is overwritten next, so it counts as
\* empty from here.
Evict ==
  /\ op.at = "evict"
  /\ clock_hand' = Victim
  /\ recent' = StillRecent
  /\ \/ /\ Dirty(Victim) /\ Works
        /\ disk' = [disk EXCEPT ![cache[Victim].key] = cache[Victim].data]
     \/ Dirty(Victim) /\ Fails("evict") /\ disk' = disk
     \/ ~Dirty(Victim) /\ Works /\ disk' = disk
  /\ cache' = [cache EXCEPT ![Victim] = Empty]
  /\ GoTo([at |-> "fill", data |-> op.data])
  /\ UNCHANGED <<wt, size>>

\* cache_update(): take the slot, dirty even when its block was only read.
Fill ==
  /\ op.at = "fill"
  /\ cache' = [cache EXCEPT ![clock_hand] =
                 [use |-> 1, key |-> req.key, data |-> op.data, dirty |-> ~wt]]
  /\ recent' = recent \cup {clock_hand}
  /\ IF req.call = "read" THEN Return(op.data)
     ELSE IF wt THEN GoTo(At("through")) ELSE Return(Ok)
  /\ UNCHANGED <<wt, clock_hand, disk, size, faults>>

\* The last step of wtclockdisk_write().
Through ==
  /\ op.at = "through"
  /\ \/ Works /\ disk' = [disk EXCEPT ![req.key] = req.data] /\ Return(Ok)
     \/ Fails("through") /\ disk' = disk /\ Return(Err)
  /\ UNCHANGED <<wt, cache, recent, clock_hand, size>>

\* (a bug: > for >=, so the first block cut off stays in the cache)
SetSizeOffByOne ==
  /\ Serves("setsize")
  /\ cache' = [s \in Slot |->
                 IF Used(s) /\ cache[s].key[1] = req.ino /\ cache[s].key[2] > req.size
                 THEN Empty ELSE cache[s]]
  /\ \/ Works /\ size' = [size EXCEPT ![req.ino] = req.size] /\ Return(Ok)
     \/ Fails("setsize") /\ size' = size /\ Return(Err)
  /\ UNCHANGED <<wt, recent, clock_hand, disk>>

\* What is cut off leaves the cache first, even if the disk then refuses.
SetSize ==
  /\ Serves("setsize")
  /\ cache' = [s \in Slot |->
                 IF Used(s) /\ cache[s].key[1] = req.ino /\ cache[s].key[2] >= req.size
                 THEN Empty ELSE cache[s]]
  /\ \/ Works /\ size' = [size EXCEPT ![req.ino] = req.size] /\ Return(Ok)
     \/ Fails("setsize") /\ size' = size /\ Return(Err)
  /\ UNCHANGED <<wt, recent, clock_hand, disk>>

SyncStart ==
  /\ Serves("sync")
  /\ GoTo([at |-> "sync", slot |-> 0])
  /\ UNCHANGED <<wt, cache, recent, clock_hand, disk, size, faults>>

ToSync(s) == Dirty(s) /\ cache[s].key[1] = req.ino

\* One slot of clockdisk_sync(): written back if it is dirty and of the inode.
SyncSlot ==
  /\ op.at = "sync" /\ op.slot < NBlocks
  /\ LET s == op.slot
     IN  \/ /\ ToSync(s) /\ Works
            /\ disk' = [disk EXCEPT ![cache[s].key] = cache[s].data]
            /\ cache' = [cache EXCEPT ![s].dirty = FALSE]
            /\ GoTo([at |-> "sync", slot |-> op.slot + 1])
         \/ /\ ToSync(s) /\ Fails("sync")
            /\ Return(Err)
            /\ UNCHANGED <<disk, cache>>
         \/ /\ ~ToSync(s) /\ Works
            /\ GoTo([at |-> "sync", slot |-> op.slot + 1])
            /\ UNCHANGED <<disk, cache>>
  /\ UNCHANGED <<wt, recent, clock_hand, size>>

\* The sync of the disk itself.
SyncBelow ==
  /\ op.at = "sync" /\ op.slot = NBlocks
  /\ \/ Works /\ Return(Ok)
     \/ Fails("sync") /\ Return(Err)
  /\ UNCHANGED <<wt, cache, recent, clock_hand, disk, size>>

\* The machine stops and starts again with an empty cache.
Crash ==
  /\ cache' = [s \in Slot |-> Empty]
  /\ recent' = {}
  /\ clock_hand' = 0
  /\ req' = None
  /\ op' = At("start")
  /\ UNCHANGED <<wt, disk, size, ret, faults>>

Next ==
  \/ Request
  \/ ReadHit \/ ReadMiss \/ ReadFails
  \/ WriteHit \/ WriteMiss
  \/ Evict \/ Fill \/ Through
  \/ SetSize
  \/ SyncStart \/ SyncSlot \/ SyncBelow
  \/ Crash

Spec == Init /\ [][Next]_vars
-----------------------------------------------------------------------------
\* What a caller sees in a block.
Content(key) == IF Cached(key) THEN cache[Find(key)].data ELSE disk[key]

BS == INSTANCE BlockStore WITH content <- [key \in Key |-> Content(key)], stable <- disk

\* Types of the variables; the hand is always on a slot.
TypeOK ==
  /\ wt \in BOOLEAN
  /\ cache \in [Slot -> Entry \cup {Empty}]
  /\ recent \subseteq Slot
  /\ clock_hand \in Slot
  /\ req \in Requests \cup {None}
  /\ op \in Op
  /\ disk \in [Key -> Data]
  /\ size \in Size
  /\ ret \in Data \cup {Ok, Err}
  /\ faults \in Nat

\* No block is in two slots, where one copy would go stale; no cached block
\* lies beyond the end of its inode, where its eviction would fail; and a clean
\* block, which will be dropped without writing, equals the one on the disk,
\* but for one that a write-through is about to write, or failed to.
CacheInv ==
  /\ \A s, t \in Slot : s # t /\ Used(s) /\ Used(t) => cache[s].key # cache[t].key
  /\ \A s \in Slot : Used(s) => InRange(cache[s].key)
  /\ \A s \in Slot : Used(s) /\ ~cache[s].dirty
       => \/ cache[s].data = disk[cache[s].key]
          \/ op.at = "through" /\ req.key = cache[s].key
          \/ wt /\ "through" \in Faulty /\ faults > 0

\* With the write-through layer and no fault, nothing is lost when the machine
\* stops between two calls.
WriteThrough ==
  wt /\ req = None /\ faults = 0 => \A key \in Key : Content(key) = disk[key]

\* The layer is a block store: reads return the last write, a successful sync
\* of an inode makes it permanent, a crash loses only what was not.
IsBlockStore == BS!Spec
=============================================================================
