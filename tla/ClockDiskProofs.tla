--------------------------- MODULE ClockDiskProofs ---------------------------
(* Theorems about the caching layers, for any cache, disk and contents.     *)
EXTENDS ClockDisk, WellFoundedInduction, FiniteSetTheorems, TLAPS

-----------------------------------------------------------------------------
(* Sets of natural numbers.                                                *)

\* A nonempty set of natural numbers has a least element: a loop that looks for
\* the first of something finds it, if it is there.
LEMMA Least ==
  ASSUME NEW S \in SUBSET Nat, S # {}
  PROVE  \E x \in S : \A y \in S : x <= y
<1>1. PICK x \in S : \A y \in S : ~(<<y, x>> \in OpToRel(<, Nat))
  BY NatLessThanWellFounded, WFMin, Zenon
<1>2. \A y \in S : ~(y < x)
  BY <1>1 DEF OpToRel
<1> QED
  BY <1>2

-----------------------------------------------------------------------------
(* The invariant.                                                         *)

\* Between its steps a call keeps this true: the block that a miss is about to
\* bring in is in no other slot and its slot is empty, a write-through has put its
\* block in the cache, and a sync leaves nothing dirty behind it.  wtclockdisk has
\* no dirty blocks.
CallInv ==
  /\ req = None => op.at = "start"
  /\ req.call = "write" => InRange(req.key)
  /\ op.at \in {"evict", "fill"}
       => /\ req.call \in {"read", "write"}
          /\ InRange(req.key)
          /\ ~Cached(req.key)
          /\ op.data = IF req.call = "read" THEN disk[req.key] ELSE req.data
  /\ op.at = "fill" => ~Used(clock_hand)
  /\ op.at = "through"
       => /\ wt /\ req.call = "write"
          /\ \E s \in Slot : Holds(s, req.key) /\ cache[s].data = req.data
  /\ op.at = "sync" => req.call = "sync" /\ \A s \in Slot : s < op.slot => ~ToSync(s)
  /\ wt => \A s \in Slot : ~Dirty(s)

IInv == TypeOK /\ CacheInv /\ CallInv

-----------------------------------------------------------------------------
\* The hand stops on a slot.
LEMMA VictimIs == ASSUME TypeOK PROVE Victim \in Slot
<1>1. CASE Slot \subseteq recent
  BY <1>1 DEF Victim, TypeOK
<1>2. CASE ~(Slot \subseteq recent)
  <2> DEFINE Free == Slot \ recent
             Far  == {Ahead(s) : s \in Free}
  <2>1. clock_hand \in Int /\ NBlocks \in Nat \ {0} /\ \A s \in Slot : s \in Int
    BY CacheAssumption DEF TypeOK, Slot
  <2>2. \A s \in Free : Ahead(s) \in Nat
    BY <2>1 DEF Ahead
  <2>3. Far \in SUBSET Nat /\ Far # {}
    BY <2>2, <1>2
  <2>4. PICK x \in Far : \A y \in Far : x <= y
    BY <2>3, Least
  <2>5. \E s \in Free : \A t \in Free : Ahead(s) <= Ahead(t)
    BY <2>4
  <2>6. Victim = CHOOSE s \in Free : \A t \in Free : Ahead(s) <= Ahead(t)
    BY <1>2 DEF Victim
  <2>7. Victim \in Free
    BY <2>5, <2>6
  <2> QED
    BY <2>7
<1> QED
  BY <1>1, <1>2

\* The search finds a slot that holds the block, if one does.
LEMMA FindIs ==
  ASSUME NEW key, Cached(key)
  PROVE  Find(key) \in Slot /\ Holds(Find(key), key)
<1> DEFINE H == {s \in Slot : Holds(s, key)}
<1>1. H \in SUBSET Nat /\ H # {}
  BY CacheAssumption DEF Slot, Cached
<1>2. PICK s \in H : \A t \in H : s <= t
  BY <1>1, Least
<1>3. \E r \in Slot : Holds(r, key) /\ \A t \in Slot : Holds(t, key) => r <= t
  BY <1>2
<1> QED
  BY <1>3 DEF Find

\* Parts of the types.
LEMMA Parts ==
  ASSUME TypeOK
  PROVE  /\ \A s \in Slot : Used(s) => cache[s] \in Entry
         /\ \A s \in Slot : ~Used(s) => cache[s] = Empty
         /\ req.call = "read" => req \in Reads
         /\ req.call = "write" => req \in Writes
         /\ req.call = "setsize" => req \in SetSizes
         /\ req.call = "sync" => req \in Syncs
         /\ op.at \in {"evict", "fill"} => op \in [at : {"evict", "fill"}, data : Data]
         /\ op.at = "sync" => op \in [at : {"sync"}, slot : 0..NBlocks]
<1>1. \A s \in Slot : cache[s] \in Entry \cup {Empty}
  BY DEF TypeOK
<1>2. Empty.use = 0 /\ \A e \in Entry : e.use = 1
  BY DEF Empty, Entry
<1>3. req \in Reads \cup Writes \cup SetSizes \cup Syncs \cup {None}
  BY DEF TypeOK, Requests
<1>4. /\ \A r \in Reads : r.call = "read"
      /\ \A r \in Writes : r.call = "write"
      /\ \A r \in SetSizes : r.call = "setsize"
      /\ \A r \in Syncs : r.call = "sync"
      /\ None.call = "none"
  BY DEF Reads, Writes, SetSizes, Syncs, None
<1>5. op \in Op
  BY DEF TypeOK
<1> QED
  <2>1. /\ \A s \in Slot : Used(s) => cache[s] \in Entry
        /\ \A s \in Slot : ~Used(s) => cache[s] = Empty
    BY <1>1, <1>2 DEF Used
  <2>2. /\ req.call = "read" => req \in Reads
        /\ req.call = "write" => req \in Writes
        /\ req.call = "setsize" => req \in SetSizes
        /\ req.call = "sync" => req \in Syncs
    BY <1>3, <1>4
  <2>3. /\ op.at \in {"evict", "fill"} => op \in [at : {"evict", "fill"}, data : Data]
        /\ op.at = "sync" => op \in [at : {"sync"}, slot : 0..NBlocks]
    BY <1>5 DEF Op
  <2> QED
    BY <2>1, <2>2, <2>3

\* A block has an inode and an offset, and an inode can be given any size.
LEMMA KeyIs == \A key \in Key : key[1] \in Inos /\ key[2] \in Nat
<1> SUFFICES ASSUME NEW key \in Key PROVE key[1] \in Inos /\ key[2] \in Nat
  OBVIOUS
<1>1. PICK i \in Inos : key \in {i} \X (0..(MaxSize[i] - 1))
  BY DEF Key
<1>2. MaxSize[i] \in Nat
  BY SizeAssumption
<1> QED
  BY <1>1, <1>2

LEMMA SetSizeIs ==
  ASSUME TypeOK, req \in SetSizes
  PROVE  /\ req.call = "setsize" /\ req.ino \in Inos /\ req.size \in Nat
         /\ [size EXCEPT ![req.ino] = req.size] \in Size
<1>1. PICK i \in Inos : req \in [call : {"setsize"}, ino : {i}, size : 0..MaxSize[i]]
  BY DEF SetSizes
<1>2. req.call = "setsize" /\ req.ino = i /\ req.size \in 0..MaxSize[i] /\ MaxSize[i] \in Nat
  BY <1>1, SizeAssumption
<1>3. req.size \in Nat /\ req.size <= MaxSize[i]
  BY <1>2
<1> DEFINE All == UNION {0..MaxSize[j] : j \in Inos}
<1>4. req.size \in All
  BY <1>2
<1>5. size \in [Inos -> All] /\ \A j \in Inos : size[j] <= MaxSize[j]
  BY DEF TypeOK, Size
<1> HIDE DEF All
<1>6. [size EXCEPT ![i] = req.size] \in [Inos -> All]
  BY <1>4, <1>5
<1>7. \A j \in Inos : [size EXCEPT ![i] = req.size][j] <= MaxSize[j]
  BY <1>3, <1>5
<1> QED
  BY <1>2, <1>3, <1>6, <1>7 DEF All, Size

-----------------------------------------------------------------------------
\* The invariant is inductive.
LEMMA InitInv == Init => IInv
<1> SUFFICES ASSUME Init PROVE IInv
  OBVIOUS
<1> USE DEF Init
<1>1. \A s \in Slot : ~Used(s)
  BY DEF Used, Empty
<1>2. 0 \in Slot
  BY CacheAssumption DEF Slot
<1>3. TypeOK
  <2>1. op \in Op /\ op.at = "start"
    BY DEF Op, At
  <2>2. cache \in [Slot -> Entry \cup {Empty}]
    OBVIOUS
  <2> QED
    BY <1>2, <2>1, <2>2 DEF TypeOK
<1>4. CacheInv
  BY <1>1 DEF CacheInv
<1>5. CallInv
  <2>1. op.at = "start"
    BY DEF At
  <2>2. req.call = "none"
    BY DEF None
  <2> QED
    BY <2>1, <2>2, <1>1, Zenon DEF CallInv, Dirty
<1> QED
  BY <1>3, <1>4, <1>5 DEF IInv

\* A call that ends leaves no request.
LEMMA ReturnIs ==
  ASSUME NEW result, Return(result)
  PROVE  req' = None /\ req'.call = "none" /\ op' \in Op /\ op'.at = "start" /\ ret' = result
  BY DEF Return, None, Op, At

\* A disk call that works or fails leaves the number of failures a number.
LEMMA FaultsIs ==
  ASSUME TypeOK
  PROVE  /\ Works => faults' \in Nat /\ faults' = faults
         /\ \A call : Fails(call) => faults' \in Nat /\ faults' > 0 /\ call \in Faulty
  BY DEF TypeOK, Works, Fails

\* Steps that touch neither the cache nor the disk.
LEMMA SameCache ==
  ASSUME TypeOK, CacheInv, UNCHANGED <<wt, cache, disk, size>>, op.at # "through",
         faults' = faults
  PROVE  CacheInv'
<1>1. \A s \in Slot : Used(s)' = Used(s)
  BY DEF Used
<1> QED
  BY <1>1 DEF CacheInv, InRange

\* When a call is over, what remains to be shown is that wtclockdisk has no dirty
\* blocks.
LEMMA CallOver ==
  ASSUME NEW result, Return(result), wt' => \A s \in Slot : ~Dirty(s)'
  PROVE  CallInv'
  BY ReturnIs, Zenon DEF CallInv

LEMMA RequestInv ==
  ASSUME IInv, Request
  PROVE  IInv'
<1> USE DEF IInv
<1>1. op.at = "start" /\ op \in Op
  BY DEF Request, CallInv, TypeOK
<1>2. TypeOK'
  BY DEF TypeOK, Request
<1>3. CacheInv'
  BY <1>1, SameCache DEF Request
<1>4. CallInv'
  <2>1. req' # None
    BY DEF Request, Requests, Reads, Writes, SetSizes, Syncs, None
  <2>2. req'.call = "write" => InRange(req.key)'
    BY DEF Request, InRange
  <2>3. op'.at = "start"
    BY <1>1 DEF Request
  <2>4. wt' => \A s \in Slot : ~Dirty(s)'
    BY DEF Request, CallInv, Dirty, Used
  <2> QED
    BY <2>1, <2>2, <2>3, <2>4, Zenon DEF CallInv
<1> QED
  BY <1>2, <1>3, <1>4

LEMMA ReadInv ==
  ASSUME IInv, ReadHit \/ ReadMiss \/ ReadFails
  PROVE  IInv'
<1> USE DEF IInv
<1>1. req.call = "read" /\ op.at = "start" /\ req \in Reads /\ req.key \in Key
  BY Parts DEF ReadHit, ReadMiss, ReadFails, Serves, Reads
<1>2. wt' => \A s \in Slot : ~Dirty(s)'
  BY DEF ReadHit, ReadMiss, ReadFails, CallInv, Dirty, Used
<1>3. CASE ReadHit
  <2>1. cache[Find(req.key)].data \in Data
    BY <1>3, FindIs, Parts DEF ReadHit, Holds, Entry
  <2>2. Return(cache[Find(req.key)].data)
    BY <1>3 DEF ReadHit
  <2>3. TypeOK'
    BY <1>3, <2>1, <2>2, ReturnIs DEF TypeOK, ReadHit
  <2>4. CacheInv'
    BY <1>1, <1>3, SameCache DEF ReadHit
  <2>5. CallInv'
    BY <2>2, <1>2, CallOver
  <2> QED
    BY <2>3, <2>4, <2>5
<1>4. CASE ReadMiss
  <2>1. req' = req /\ op' = [at |-> "evict", data |-> disk[req.key]] /\ ret' = ret
    BY <1>4 DEF ReadMiss, GoTo
  <2>2. op' \in Op /\ op'.at = "evict" /\ op'.data = disk[req.key]
    BY <2>1, <1>1 DEF Op, TypeOK
  <2>3. TypeOK'
    BY <1>4, <2>1, <2>2 DEF TypeOK, ReadMiss, Works
  <2>4. CacheInv'
    BY <1>1, <1>4, SameCache DEF ReadMiss, Works
  <2>5. CallInv'
    <3>1. ~Cached(req.key)' /\ InRange(req.key)'
      BY <1>4, <2>1 DEF ReadMiss, Cached, Holds, Used, InRange
    <3>2. req'.call = "read" /\ req' # None /\ disk' = disk
      BY <1>1, <1>4, <2>1 DEF None, ReadMiss
    <3> QED
      BY <1>2, <2>1, <2>2, <3>1, <3>2 DEF CallInv
  <2> QED
    BY <2>3, <2>4, <2>5
<1>5. CASE ReadFails
  <2>1. Return(Err)
    BY <1>5 DEF ReadFails
  <2>2. faults' \in Nat /\ (faults' = faults \/ faults' > 0)
    BY <1>5, FaultsIs DEF ReadFails
  <2>3. TypeOK'
    BY <1>5, <2>1, <2>2, ReturnIs DEF TypeOK, ReadFails
  <2>4. CacheInv'
    <3>1. \A s \in Slot : Used(s)' = Used(s)
      BY <1>5 DEF Used, ReadFails
    <3>2. faults > 0 => faults' > 0
      BY <1>5 DEF ReadFails, Works, Fails, TypeOK
    <3> QED
      BY <1>1, <1>5, <3>1, <3>2 DEF CacheInv, InRange, ReadFails
  <2>5. CallInv'
    BY <2>1, <1>2, CallOver
  <2> QED
    BY <2>3, <2>4, <2>5
<1> QED
  BY <1>3, <1>4, <1>5

LEMMA WriteInv ==
  ASSUME IInv, WriteHit \/ WriteMiss
  PROVE  IInv'
<1> USE DEF IInv
<1>1. /\ req.call = "write" /\ op.at = "start" /\ req \in Writes
      /\ req.key \in Key /\ req.data \in Data /\ InRange(req.key) /\ req # None
  BY Parts DEF WriteHit, WriteMiss, Serves, Writes, CallInv, None
<1>2. CASE WriteHit
  <2>1. PICK f \in Slot : f = Find(req.key) /\ Holds(f, req.key)
    BY <1>2, FindIs DEF WriteHit
  <2>2. cache[f] \in Entry /\ wt \in BOOLEAN
    BY <2>1, Parts DEF Holds, TypeOK
  <2>3. cache' = [cache EXCEPT ![f].data = req.data, ![f].dirty = ~wt]
    BY <1>2, <2>1 DEF WriteHit
  <2>4. /\ cache'[f].use = 1 /\ cache'[f].key = req.key /\ cache'[f].data = req.data
        /\ cache'[f].dirty = ~wt /\ cache'[f] \in Entry
        /\ \A s \in Slot : s # f => cache'[s] = cache[s]
        /\ cache' \in [Slot -> Entry \cup {Empty}]
    BY <1>1, <2>1, <2>2, <2>3 DEF TypeOK, Entry, Holds
  <2>5. \A s \in Slot : Used(s)' = Used(s) /\ (Used(s) => cache'[s].key = cache[s].key)
    BY <2>1, <2>4 DEF Used, Holds
  <2>6. \/ Return(Ok)
        \/ wt /\ req' = req /\ op' = At("through") /\ ret' = ret
    BY <1>2 DEF WriteHit, GoTo
  <2>7. op' \in Op /\ (wt => op'.at = "through" /\ req' = req) /\ (~wt => Return(Ok))
    BY <1>2, ReturnIs DEF Op, At, WriteHit, GoTo
  <2>8. /\ wt' = wt /\ recent' = recent /\ clock_hand' = clock_hand /\ disk' = disk
        /\ size' = size /\ faults' = faults
    BY <1>2 DEF WriteHit
  <2>9. TypeOK'
    BY <2>4, <2>6, <2>7, <2>8, ReturnIs DEF TypeOK
  <2>10. CacheInv'
    <3>1. \A s \in Slot : Used(s)' => InRange(cache[s].key)'
      BY <2>5, <2>8 DEF CacheInv, InRange
    <3>2. \A s, t \in Slot : s # t /\ Used(s)' /\ Used(t)' => cache'[s].key # cache'[t].key
      BY <2>5 DEF CacheInv
    <3>3. ASSUME NEW s \in Slot, Used(s)', ~cache'[s].dirty
          PROVE  \/ cache'[s].data = disk'[cache'[s].key]
                 \/ op'.at = "through" /\ req'.key = cache'[s].key
                 \/ wt' /\ "through" \in Faulty /\ faults' > 0
      <4>1. CASE s = f
        BY <3>3, <4>1, <2>2, <2>4, <2>7
      <4>2. CASE s # f
        BY <3>3, <4>2, <2>4, <2>5, <2>8, <1>1 DEF CacheInv
      <4> QED
        BY <4>1, <4>2
    <3> QED
      BY <3>1, <3>2, <3>3 DEF CacheInv
  <2>11. CallInv'
    <3>1. wt' => \A s \in Slot : ~Dirty(s)'
      BY <2>4, <2>8 DEF CallInv, Dirty, Used
    <3>2. CASE wt
      <4>1. Holds(f, req.key)' /\ cache'[f].data = req'.data
        BY <2>4, <2>7, <3>2 DEF Holds, Used
      <4>2. InRange(req.key)'
        BY <1>1, <2>7, <2>8, <3>2 DEF InRange
      <4> QED
        BY <1>1, <2>1, <2>7, <2>8, <3>1, <3>2, <4>1, <4>2, Zenon DEF CallInv
    <3>3. CASE ~wt
      BY <2>7, <3>1, <3>3, CallOver
    <3> QED
      BY <3>2, <3>3
  <2> QED
    BY <2>9, <2>10, <2>11
<1>3. CASE WriteMiss
  <2>1. req' = req /\ op' = [at |-> "evict", data |-> req.data] /\ ret' = ret
    BY <1>3 DEF WriteMiss, GoTo
  <2>2. op' \in Op /\ op'.at = "evict" /\ op'.data = req.data
    BY <2>1, <1>1 DEF Op
  <2>3. TypeOK'
    BY <1>3, <2>1, <2>2 DEF TypeOK, WriteMiss
  <2>4. CacheInv'
    BY <1>1, <1>3, SameCache DEF WriteMiss
  <2>5. CallInv'
    <3>1. ~Cached(req.key)' /\ InRange(req.key)'
      BY <1>1, <1>3, <2>1 DEF WriteMiss, Cached, Holds, Used, InRange
    <3>2. wt' => \A s \in Slot : ~Dirty(s)'
      BY <1>3 DEF WriteMiss, CallInv, Dirty, Used
    <3> QED
      BY <1>1, <2>1, <2>2, <3>1, <3>2 DEF CallInv
  <2> QED
    BY <2>3, <2>4, <2>5
<1> QED
  BY <1>2, <1>3

LEMMA EvictInv ==
  ASSUME IInv, Evict
  PROVE  IInv'
<1> USE DEF IInv
<1>1. PICK v \in Slot : v = Victim
  BY VictimIs
<1>2. /\ op.at = "evict" /\ op \in [at : {"evict", "fill"}, data : Data]
      /\ req.call \in {"read", "write"} /\ InRange(req.key) /\ ~Cached(req.key)
      /\ op.data = IF req.call = "read" THEN disk[req.key] ELSE req.data
      /\ req # None
  BY Parts DEF Evict, CallInv, None
<1>3. /\ clock_hand' = v /\ recent' = StillRecent
      /\ \/ /\ Dirty(v) /\ Works
            /\ disk' = [disk EXCEPT ![cache[v].key] = cache[v].data]
         \/ Dirty(v) /\ Fails("evict") /\ disk' = disk
         \/ ~Dirty(v) /\ Works /\ disk' = disk
      /\ cache' = [cache EXCEPT ![v] = Empty]
      /\ GoTo([at |-> "fill", data |-> op.data])
      /\ wt' = wt /\ size' = size
  BY <1>1 DEF Evict
<1>4. req' = req /\ op' = [at |-> "fill", data |-> op.data] /\ ret' = ret
  BY <1>3 DEF GoTo
<1>5. op' \in Op /\ op'.at = "fill" /\ op'.data = op.data
  BY <1>2, <1>4 DEF Op
<1>6. StillRecent \subseteq Slot
  BY DEF StillRecent, TypeOK
<1>7. /\ cache' \in [Slot -> Entry \cup {Empty}] /\ ~Used(v)'
      /\ \A s \in Slot : s # v => cache'[s] = cache[s] /\ Used(s)' = Used(s)
  BY <1>1, <1>3 DEF TypeOK, Used, Empty
<1>8. disk' \in [Key -> Data] /\ \A key \in Key : disk'[key] # disk[key] => Used(v) /\ key = cache[v].key
  <2>1. Dirty(v) => cache[v].key \in Key /\ cache[v].data \in Data
    BY <1>1, Parts DEF Dirty, Entry
  <2> QED
    BY <1>3, <2>1 DEF TypeOK, Dirty
<1>9. faults' \in Nat /\ (faults > 0 => faults' > 0)
  BY <1>3 DEF TypeOK, Works, Fails
<1>10. TypeOK'
  BY <1>1, <1>3, <1>4, <1>5, <1>6, <1>7, <1>8, <1>9 DEF TypeOK
<1>11. CacheInv'
  <2>1. \A s, t \in Slot : s # t /\ Used(s)' /\ Used(t)' => cache'[s].key # cache'[t].key
    BY <1>7 DEF CacheInv
  <2>2. \A s \in Slot : Used(s)' => InRange(cache[s].key)'
    BY <1>3, <1>7 DEF CacheInv, InRange
  <2>3. ASSUME NEW s \in Slot, Used(s)', ~cache'[s].dirty
        PROVE  cache'[s].data = disk'[cache'[s].key] \/ (wt' /\ "through" \in Faulty /\ faults' > 0)
    <3>1. s # v /\ cache'[s] = cache[s] /\ Used(s) /\ cache[s].key \in Key
      BY <2>3, <1>7, Parts DEF Entry
    <3>2. cache[s].data = disk[cache[s].key] \/ (wt /\ "through" \in Faulty /\ faults > 0)
      BY <1>2, <2>3, <3>1 DEF CacheInv
    <3>3. disk'[cache[s].key] = disk[cache[s].key]
      BY <1>1, <1>8, <3>1 DEF CacheInv
    <3> QED
      BY <1>3, <1>9, <3>1, <3>2, <3>3
  <2> QED
    BY <2>1, <2>2, <2>3 DEF CacheInv
<1>12. CallInv'
  <2>1. ~Cached(req.key)' /\ InRange(req.key)'
    BY <1>2, <1>3, <1>4, <1>7 DEF Cached, Holds, InRange
  <2>2. op'.data = IF req'.call = "read" THEN disk'[req'.key] ELSE req'.data
    <3>1. CASE req.call = "read"
      <4>1. req.key \in Key
        BY <3>1, Parts DEF Reads
      <4>2. disk'[req.key] = disk[req.key]
        BY <1>1, <1>2, <1>8, <4>1 DEF Cached, Holds
      <4> QED
        BY <1>2, <1>4, <1>5, <3>1, <4>2
    <3>2. CASE req.call # "read"
      BY <1>2, <1>4, <1>5, <3>2
    <3> QED
      BY <3>1, <3>2
  <2>3. wt' => \A s \in Slot : ~Dirty(s)'
    BY <1>3, <1>7 DEF CallInv, Dirty
  <2>4. ~Used(clock_hand)'
    BY <1>3, <1>7 DEF Used
  <2>5. req'.call = "write" => InRange(req.key)'
    BY <2>1
  <2> QED
    BY <1>2, <1>4, <1>5, <2>1, <2>2, <2>3, <2>4, <2>5 DEF CallInv
<1> QED
  BY <1>10, <1>11, <1>12

LEMMA FillInv ==
  ASSUME IInv, Fill
  PROVE  IInv'
<1> USE DEF IInv
<1>1. PICK h \in Slot : h = clock_hand
  BY DEF TypeOK
<1>2. /\ op.at = "fill" /\ op \in [at : {"evict", "fill"}, data : Data]
      /\ req.call \in {"read", "write"} /\ InRange(req.key) /\ ~Cached(req.key)
      /\ op.data = IF req.call = "read" THEN disk[req.key] ELSE req.data
      /\ ~Used(h) /\ req # None
  BY <1>1, Parts DEF Fill, CallInv, None
<1>3. req.key \in Key /\ op.data \in Data /\ wt \in BOOLEAN
  BY <1>2, Parts DEF Reads, Writes, TypeOK
<1>4. /\ cache' = [cache EXCEPT ![h] =
                     [use |-> 1, key |-> req.key, data |-> op.data, dirty |-> ~wt]]
      /\ recent' = recent \cup {h}
      /\ clock_hand' = clock_hand /\ wt' = wt /\ disk' = disk /\ size' = size
      /\ faults' = faults
  BY <1>1 DEF Fill
<1>5. IF req.call = "read" THEN Return(op.data)
      ELSE IF wt THEN GoTo(At("through")) ELSE Return(Ok)
  BY DEF Fill
<1>6. /\ cache'[h].use = 1 /\ cache'[h].key = req.key /\ cache'[h].data = op.data
      /\ cache'[h].dirty = ~wt /\ Used(h)' /\ cache'[h] \in Entry
      /\ cache' \in [Slot -> Entry \cup {Empty}]
      /\ \A s \in Slot : s # h => cache'[s] = cache[s] /\ Used(s)' = Used(s)
  BY <1>1, <1>3, <1>4 DEF TypeOK, Entry, Used
<1>7. TypeOK'
  <2>1. /\ op' \in Op /\ req' \in Requests \cup {None} /\ ret' \in Data \cup {Ok, Err}
    <3>1. CASE wt /\ req.call = "write"
      BY <1>2, <1>5, <3>1 DEF GoTo, Op, At, TypeOK
    <3>2. CASE ~(wt /\ req.call = "write")
      BY <1>2, <1>3, <1>5, <3>2, ReturnIs DEF TypeOK
    <3> QED
      BY <3>1, <3>2
  <2> QED
    BY <1>1, <1>4, <1>6, <2>1 DEF TypeOK
<1>8. CacheInv'
  <2>1. \A s, t \in Slot : s # t /\ Used(s)' /\ Used(t)' => cache'[s].key # cache'[t].key
    BY <1>2, <1>6 DEF CacheInv, Cached, Holds
  <2>2. \A s \in Slot : Used(s)' => InRange(cache[s].key)'
    BY <1>2, <1>4, <1>6 DEF CacheInv, InRange
  <2>3. ASSUME NEW s \in Slot, Used(s)', ~cache'[s].dirty
        PROVE  \/ cache'[s].data = disk'[cache'[s].key]
               \/ op'.at = "through" /\ req'.key = cache'[s].key
               \/ wt' /\ "through" \in Faulty /\ faults' > 0
    <3>1. CASE s = h
      <4>1. CASE req.call = "read"
        BY <1>2, <1>4, <1>6, <3>1, <4>1
      <4>2. CASE req.call # "read"
        <5>1. ~cache'[h].dirty /\ cache'[h].dirty = ~wt
          BY <1>6, <2>3, <3>1
        <5>2. wt
          BY <5>1, Zenon
        <5>3. req' = req /\ op' = At("through")
          BY <1>5, <4>2, <5>2 DEF GoTo
        <5>4. op'.at = "through"
          BY <5>3 DEF At
        <5> QED
          BY <1>6, <3>1, <5>3, <5>4
      <4> QED
        BY <4>1, <4>2
    <3>2. CASE s # h
      BY <1>2, <1>4, <1>6, <2>3, <3>2 DEF CacheInv
    <3> QED
      BY <3>1, <3>2
  <2> QED
    BY <2>1, <2>2, <2>3 DEF CacheInv
<1>9. CallInv'
  <2>1. wt' => \A s \in Slot : ~Dirty(s)'
    BY <1>4, <1>6 DEF CallInv, Dirty
  <2>2. CASE wt /\ req.call = "write"
    <3>1. req' = req /\ op'.at = "through"
      BY <1>2, <1>5, <2>2 DEF GoTo, At
    <3>2. cache'[h].data = req'.data /\ Holds(h, req.key)'
      BY <1>2, <1>6, <2>2, <3>1 DEF Holds
    <3>3. InRange(req.key)'
      BY <1>2, <1>4, <3>1 DEF InRange
    <3> QED
      BY <1>2, <1>4, <2>1, <2>2, <3>1, <3>2, <3>3, Zenon DEF CallInv
  <2>3. CASE ~(wt /\ req.call = "write")
    <3>1. PICK result : Return(result)
      BY <1>2, <1>5, <2>3
    <3> QED
      BY <2>1, <3>1, CallOver
  <2> QED
    BY <2>2, <2>3
<1> QED
  BY <1>7, <1>8, <1>9

LEMMA ThroughInv ==
  ASSUME IInv, Through
  PROVE  IInv'
<1> USE DEF IInv
<1>1. /\ op.at = "through" /\ wt /\ req.call = "write" /\ req.key \in Key /\ req.data \in Data
      /\ \E s \in Slot : Holds(s, req.key) /\ cache[s].data = req.data
      /\ \A s \in Slot : ~Dirty(s)
  BY Parts DEF Through, CallInv, Writes
<1>2. PICK f \in Slot : Holds(f, req.key) /\ cache[f].data = req.data
  BY <1>1
<1>3. /\ wt' = wt /\ cache' = cache /\ recent' = recent /\ clock_hand' = clock_hand
      /\ size' = size
      /\ \/ /\ Works /\ Return(Ok)
            /\ disk' = [disk EXCEPT ![req.key] = req.data]
         \/ Fails("through") /\ disk' = disk /\ Return(Err)
  BY DEF Through
<1>4. \A s \in Slot : Used(s)' = Used(s)
  BY <1>3 DEF Used
<1>5. /\ req' = None /\ op' \in Op /\ op'.at = "start" /\ ret' \in {Ok, Err}
      /\ disk' \in [Key -> Data] /\ faults' \in Nat
  BY <1>1, <1>3, ReturnIs, FaultsIs DEF TypeOK
<1>6. TypeOK'
  BY <1>3, <1>5 DEF TypeOK
<1>7. CacheInv'
  <2>1. ASSUME NEW s \in Slot, Used(s), ~cache[s].dirty
        PROVE  \/ cache[s].data = disk'[cache[s].key]
               \/ wt /\ "through" \in Faulty /\ faults' > 0
    <3>1. CASE Fails("through")
      BY <1>1, <3>1, FaultsIs
    <3>2. CASE Works /\ s = f
      BY <1>1, <1>2, <1>3, <3>2, FaultsIs DEF Works, Fails, Holds, TypeOK
    <3>3. CASE Works /\ s # f
      <4>1. cache[s].key # req.key /\ cache[s].key \in Key
        BY <1>2, <2>1, <3>3, Parts DEF CacheInv, Holds, Entry
      <4>2. cache[s].data = disk[cache[s].key] \/ (wt /\ "through" \in Faulty /\ faults > 0)
        BY <2>1, <4>1 DEF CacheInv
      <4>3. disk'[cache[s].key] = disk[cache[s].key]
        BY <1>3, <4>1 DEF TypeOK
      <4> QED
        BY <3>3, <4>2, <4>3 DEF Works
    <3> QED
      BY <1>3, <3>1, <3>2, <3>3
  <2> QED
    BY <1>3, <1>4, <2>1 DEF CacheInv, InRange
<1>8. CallInv'
  <2>1. \A s \in Slot : ~Dirty(s)'
    BY <1>1, <1>3, <1>4 DEF Dirty
  <2> QED
    BY <1>3, <2>1, CallOver
<1> QED
  BY <1>6, <1>7, <1>8

LEMMA SetSizeInv ==
  ASSUME IInv, SetSize
  PROVE  IInv'
<1> USE DEF IInv
<1>1. req \in SetSizes /\ op.at = "start"
  BY Parts DEF SetSize, Serves
<1>2. req.ino \in Inos /\ req.size \in Nat /\ [size EXCEPT ![req.ino] = req.size] \in Size
  BY <1>1, SetSizeIs
<1>3. /\ wt' = wt /\ recent' = recent /\ clock_hand' = clock_hand /\ disk' = disk
      /\ cache' = [s \in Slot |->
                     IF Used(s) /\ cache[s].key[1] = req.ino /\ cache[s].key[2] >= req.size
                     THEN Empty ELSE cache[s]]
      /\ \/ Works /\ size' = [size EXCEPT ![req.ino] = req.size] /\ Return(Ok)
         \/ Fails("setsize") /\ size' = size /\ Return(Err)
  BY DEF SetSize
<1>4. \A s \in Slot : Used(s)' => /\ Used(s) /\ cache'[s] = cache[s]
                                  /\ cache[s].key[1] # req.ino \/ cache[s].key[2] < req.size
  <2>1. \A s \in Slot : Used(s) => cache[s].key[2] \in Nat
    BY Parts, KeyIs DEF Entry
  <2>2. Empty.use # 1
    BY DEF Empty
  <2> QED
    BY <1>2, <1>3, <2>1, <2>2 DEF Used
<1>5. cache' \in [Slot -> Entry \cup {Empty}]
  BY <1>3 DEF TypeOK
<1>6. /\ req' = None /\ op' \in Op /\ op'.at = "start" /\ ret' \in {Ok, Err}
      /\ faults' \in Nat /\ size' \in Size /\ (faults > 0 => faults' > 0)
  BY <1>2, <1>3, ReturnIs, FaultsIs DEF TypeOK, Works, Fails
<1>7. TypeOK'
  BY <1>3, <1>5, <1>6 DEF TypeOK
<1>8. CacheInv'
  <2>1. ASSUME NEW s \in Slot, Used(s)' PROVE InRange(cache[s].key)'
    <3>1. Used(s) /\ cache'[s].key = cache[s].key /\ cache[s].key \in Key /\ InRange(cache[s].key)
      BY <1>4, <2>1, Parts DEF CacheInv, Entry
    <3>2. cache[s].key[1] \in Inos
      BY <3>1, KeyIs
    <3>3. size \in [Inos -> UNION {0..MaxSize[i] : i \in Inos}]
      BY DEF TypeOK, Size
    <3>4. CASE size' = size
      BY <3>1, <3>4 DEF InRange
    <3>5. CASE size' = [size EXCEPT ![req.ino] = req.size]
      BY <1>2, <1>4, <2>1, <3>1, <3>2, <3>3, <3>5 DEF InRange
    <3> QED
      BY <1>3, <3>4, <3>5
  <2> QED
    BY <1>1, <1>3, <1>4, <1>6, <2>1 DEF CacheInv
<1>9. CallInv'
  <2>1. wt' => \A s \in Slot : ~Dirty(s)'
    BY <1>3, <1>4 DEF CallInv, Dirty
  <2> QED
    BY <1>3, <2>1, CallOver
<1> QED
  BY <1>7, <1>8, <1>9

LEMMA SyncInv ==
  ASSUME IInv, SyncStart \/ SyncSlot \/ SyncBelow
  PROVE  IInv'
<1> USE DEF IInv
<1>1. CASE SyncStart
  <2>1. req.call = "sync" /\ op.at = "start" /\ req \in Syncs /\ req # None
    BY <1>1, Parts DEF SyncStart, Serves, None
  <2>2. req' = req /\ ret' = ret /\ op' = [at |-> "sync", slot |-> 0]
    BY <1>1 DEF SyncStart, GoTo
  <2>3. op' \in Op /\ op'.at = "sync" /\ op'.slot = 0
    BY <2>2, CacheAssumption DEF Op
  <2>4. TypeOK'
    BY <1>1, <2>2, <2>3 DEF TypeOK, SyncStart
  <2>5. CacheInv'
    BY <1>1, <2>1, SameCache DEF SyncStart
  <2>6. CallInv'
    <3>1. \A s \in Slot : ~(s < op'.slot)
      BY <2>3, CacheAssumption DEF Slot
    <3>2. wt' => \A s \in Slot : ~Dirty(s)'
      BY <1>1 DEF SyncStart, CallInv, Dirty, Used
    <3> QED
      BY <2>1, <2>2, <2>3, <3>1, <3>2 DEF CallInv
  <2> QED
    BY <2>4, <2>5, <2>6
<1>2. CASE SyncSlot
  <2>1. /\ op.at = "sync" /\ op \in [at : {"sync"}, slot : 0..NBlocks] /\ op.slot < NBlocks
        /\ req.call = "sync" /\ req # None /\ \A s \in Slot : s < op.slot => ~ToSync(s)
    BY <1>2, Parts DEF SyncSlot, CallInv, None
  <2>2. PICK r \in Slot : r = op.slot
    BY <2>1, CacheAssumption DEF Slot
  <2>3. /\ wt' = wt /\ recent' = recent /\ clock_hand' = clock_hand /\ size' = size
        /\ \/ /\ ToSync(r) /\ Works
              /\ disk' = [disk EXCEPT ![cache[r].key] = cache[r].data]
              /\ cache' = [cache EXCEPT ![r].dirty = FALSE]
              /\ GoTo([at |-> "sync", slot |-> r + 1])
           \/ /\ ToSync(r) /\ Fails("sync")
              /\ Return(Err)
              /\ disk' = disk /\ cache' = cache
           \/ /\ ~ToSync(r) /\ Works
              /\ GoTo([at |-> "sync", slot |-> r + 1])
              /\ disk' = disk /\ cache' = cache
    BY <1>2, <2>2 DEF SyncSlot
  <2>4. faults' \in Nat /\ (faults > 0 => faults' > 0)
    BY <2>3 DEF TypeOK, Works, Fails
  <2>5. [at |-> "sync", slot |-> r + 1] \in Op
    <3>1. r + 1 \in 0..NBlocks
      BY <2>2, CacheAssumption DEF Slot
    <3> QED
      BY <3>1 DEF Op
  <2>6. CASE /\ ToSync(r) /\ Works
             /\ disk' = [disk EXCEPT ![cache[r].key] = cache[r].data]
             /\ cache' = [cache EXCEPT ![r].dirty = FALSE]
             /\ GoTo([at |-> "sync", slot |-> r + 1])
    <3>1. cache[r] \in Entry /\ Used(r)
      BY <2>6, Parts DEF ToSync, Dirty
    <3>2. /\ cache'[r].use = 1 /\ cache'[r].key = cache[r].key /\ cache'[r].data = cache[r].data
          /\ cache'[r].dirty = FALSE /\ cache'[r] \in Entry
          /\ cache' \in [Slot -> Entry \cup {Empty}]
          /\ \A s \in Slot : s # r => cache'[s] = cache[s]
      BY <2>6, <3>1 DEF TypeOK, Entry, Used
    <3>3. \A s \in Slot : Used(s)' = Used(s) /\ (Used(s) => cache'[s].key = cache[s].key)
      BY <3>1, <3>2 DEF Used
    <3>4. cache[r].key \in Key /\ cache[r].data \in Data
      BY <3>1 DEF Entry
    <3>5. /\ disk' \in [Key -> Data] /\ disk'[cache[r].key] = cache[r].data
          /\ \A key \in Key : key # cache[r].key => disk'[key] = disk[key]
      BY <2>6, <3>4 DEF TypeOK
    <3>6. /\ req' = req /\ ret' = ret /\ op' = [at |-> "sync", slot |-> r + 1]
          /\ op'.at = "sync" /\ op'.slot = r + 1
      BY <2>6 DEF GoTo
    <3>7. TypeOK'
      BY <2>3, <2>4, <2>5, <3>2, <3>5, <3>6 DEF TypeOK
    <3>8. CacheInv'
      <4>1. ASSUME NEW s \in Slot, Used(s)', ~cache'[s].dirty
            PROVE  \/ cache'[s].data = disk'[cache'[s].key]
                   \/ wt' /\ "through" \in Faulty /\ faults' > 0
        <5>1. CASE s = r
          BY <5>1, <3>2, <3>5
        <5>2. CASE s # r
          <6>1. Used(s) /\ cache'[s] = cache[s] /\ cache[s].key \in Key
            BY <3>2, <3>3, <4>1, <5>2, Parts DEF Entry
          <6>2. cache[s].key # cache[r].key
            BY <5>2, <6>1, <3>1 DEF CacheInv
          <6>3. cache[s].data = disk[cache[s].key] \/ (wt /\ "through" \in Faulty /\ faults > 0)
            BY <2>1, <4>1, <6>1 DEF CacheInv
          <6> QED
            BY <2>3, <2>4, <3>5, <6>1, <6>2, <6>3
        <5> QED
          BY <5>1, <5>2
      <4>2. \A s \in Slot : Used(s)' => InRange(cache[s].key)'
        BY <2>3, <3>3 DEF CacheInv, InRange
      <4>3. \A s, t \in Slot : s # t /\ Used(s)' /\ Used(t)' => cache'[s].key # cache'[t].key
        BY <3>3 DEF CacheInv
      <4> QED
        BY <4>1, <4>2, <4>3 DEF CacheInv
    <3>9. CallInv'
      <4>1. \A s \in Slot : Dirty(s)' => Dirty(s) /\ s # r
        BY <3>2, <3>3 DEF Dirty
      <4>2. \A s \in Slot : ToSync(s)' => ToSync(s) /\ s # r
        BY <3>3, <3>6, <4>1 DEF ToSync, Dirty
      <4>3. \A s \in Slot : s < op'.slot => s < r \/ s = r
        BY <3>6, CacheAssumption DEF Slot
      <4>4. \A s \in Slot : s < op'.slot => ~ToSync(s)'
        BY <2>1, <2>2, <4>2, <4>3
      <4>5. wt' => \A s \in Slot : ~Dirty(s)'
        BY <2>3, <4>1 DEF CallInv
      <4> QED
        BY <2>1, <3>6, <4>4, <4>5 DEF CallInv
    <3> QED
      BY <3>7, <3>8, <3>9
  <2>7. CASE /\ ToSync(r) /\ Fails("sync")
             /\ Return(Err)
             /\ disk' = disk /\ cache' = cache
    <3>1. \A s \in Slot : Used(s)' = Used(s) /\ Dirty(s)' = Dirty(s)
      BY <2>7 DEF Used, Dirty
    <3>2. TypeOK'
      BY <2>3, <2>4, <2>7, ReturnIs DEF TypeOK
    <3>3. CacheInv'
      BY <2>1, <2>3, <2>4, <2>7, <3>1 DEF CacheInv, InRange
    <3>4. wt' => \A s \in Slot : ~Dirty(s)'
      BY <2>3, <3>1 DEF CallInv
    <3>5. CallInv'
      BY <2>7, <3>4, CallOver
    <3> QED
      BY <3>2, <3>3, <3>5
  <2>8. CASE /\ ~ToSync(r) /\ Works
             /\ GoTo([at |-> "sync", slot |-> r + 1])
             /\ disk' = disk /\ cache' = cache
    <3>1. \A s \in Slot : Used(s)' = Used(s) /\ Dirty(s)' = Dirty(s)
      BY <2>8 DEF Used, Dirty
    <3>2. /\ req' = req /\ ret' = ret /\ op' = [at |-> "sync", slot |-> r + 1]
          /\ op'.at = "sync" /\ op'.slot = r + 1
      BY <2>8 DEF GoTo
    <3>3. TypeOK'
      BY <2>3, <2>4, <2>5, <2>8, <3>2 DEF TypeOK
    <3>4. CacheInv'
      BY <2>1, <2>3, <2>8, SameCache DEF Works
    <3>5. CallInv'
      <4>1. \A s \in Slot : s < op'.slot => s < r \/ s = r
        BY <3>2, CacheAssumption DEF Slot
      <4>2. \A s \in Slot : s < op'.slot => ~ToSync(s)'
        BY <2>1, <2>2, <2>8, <3>1, <3>2, <4>1 DEF ToSync
      <4>3. wt' => \A s \in Slot : ~Dirty(s)'
        BY <2>3, <3>1 DEF CallInv
      <4> QED
        BY <2>1, <3>2, <4>2, <4>3 DEF CallInv
    <3> QED
      BY <3>3, <3>4, <3>5
  <2> QED
    BY <2>3, <2>6, <2>7, <2>8
<1>3. CASE SyncBelow
  <2>1. PICK result \in {Ok, Err} : Return(result)
    BY <1>3 DEF SyncBelow
  <2>2. faults' \in Nat /\ (faults > 0 => faults' > 0)
    BY <1>3 DEF SyncBelow, TypeOK, Works, Fails
  <2>3. TypeOK'
    BY <1>3, <2>1, <2>2, ReturnIs DEF TypeOK, SyncBelow
  <2>4. CacheInv'
    <3>1. \A s \in Slot : Used(s)' = Used(s)
      BY <1>3 DEF Used, SyncBelow
    <3> QED
      BY <1>3, <2>2, <3>1 DEF CacheInv, InRange, SyncBelow
  <2>5. CallInv'
    <3>1. wt' => \A s \in Slot : ~Dirty(s)'
      BY <1>3 DEF SyncBelow, CallInv, Dirty, Used
    <3> QED
      BY <2>1, <3>1, CallOver
  <2> QED
    BY <2>3, <2>4, <2>5
<1> QED
  BY <1>1, <1>2, <1>3

LEMMA CrashInv ==
  ASSUME IInv, Crash
  PROVE  IInv'
<1> USE DEF IInv
<1>1. /\ cache' = [s \in Slot |-> Empty] /\ recent' = {} /\ clock_hand' = 0
      /\ req' = None /\ op' = At("start") /\ UNCHANGED <<wt, disk, size, ret, faults>>
  BY DEF Crash
<1>2. \A s \in Slot : ~Used(s)' /\ ~Dirty(s)'
  BY <1>1 DEF Used, Dirty, Empty
<1>3. op' \in Op /\ op'.at = "start" /\ req'.call = "none" /\ 0 \in Slot
  BY <1>1, CacheAssumption DEF Op, At, None, Slot
<1>4. TypeOK'
  BY <1>1, <1>3 DEF TypeOK
<1>5. CacheInv'
  BY <1>2 DEF CacheInv
<1>6. CallInv'
  BY <1>1, <1>2, <1>3, Zenon DEF CallInv
<1> QED
  BY <1>4, <1>5, <1>6

LEMMA NextInv == IInv /\ [Next]_vars => IInv'
<1> SUFFICES ASSUME IInv, [Next]_vars PROVE IInv'
  OBVIOUS
<1>1. CASE Next
  BY <1>1, RequestInv, ReadInv, WriteInv, EvictInv, FillInv, ThroughInv, SetSizeInv,
     SyncInv, CrashInv DEF Next
<1>2. CASE UNCHANGED vars
  BY <1>2 DEF IInv, TypeOK, CacheInv, CallInv, vars, Used, Dirty, Holds, Cached, ToSync, InRange
<1> QED
  BY <1>1, <1>2

\* The invariant holds in every state.
THEOREM InvCorrect == Spec => []IInv
  BY InitInv, NextInv, PTL DEF Spec

\* The variables keep their types; the hand stays on a slot of the cache.
THEOREM TypeCorrect == Spec => []TypeOK
<1>1. IInv => TypeOK
  BY DEF IInv
<1> QED
  BY <1>1, InvCorrect, PTL

\* No block is cached twice or beyond the end of its inode, and what is dropped
\* without writing is on the disk.
THEOREM CacheCorrect == Spec => []CacheInv
<1>1. IInv => CacheInv
  BY DEF IInv
<1> QED
  BY <1>1, InvCorrect, PTL

-----------------------------------------------------------------------------
(* What a caller sees.  Each step of the layer is a step of a block store,  *)
(* or changes nothing a block store has.                                    *)

\* Content, as a function of the cache and the disk.
Shows(c, d, key) ==
  IF \E s \in Slot : c[s].use = 1 /\ c[s].key = key
  THEN c[CHOOSE s \in Slot :
           /\ c[s].use = 1 /\ c[s].key = key
           /\ \A t \in Slot : c[t].use = 1 /\ c[t].key = key => s <= t].data
  ELSE d[key]

ContentOK ==
  \A key : /\ \A s \in Slot : Holds(s, key) => Content(key) = cache[s].data
           /\ ~Cached(key) => Content(key) = disk[key]

LEMMA ShowsIs ==
  ASSUME NEW c, NEW d, NEW key,
         \A s, t \in Slot : s # t /\ c[s].use = 1 /\ c[t].use = 1 => c[s].key # c[t].key
  PROVE  /\ \A s \in Slot : c[s].use = 1 /\ c[s].key = key => Shows(c, d, key) = c[s].data
         /\ (\A s \in Slot : ~(c[s].use = 1 /\ c[s].key = key)) => Shows(c, d, key) = d[key]
<1>1. ASSUME NEW s \in Slot, c[s].use = 1 /\ c[s].key = key
      PROVE  Shows(c, d, key) = c[s].data
  <2> DEFINE First == CHOOSE r \in Slot :
                        /\ c[r].use = 1 /\ c[r].key = key
                        /\ \A t \in Slot : c[t].use = 1 /\ c[t].key = key => r <= t
  <2>1. \A t \in Slot : c[t].use = 1 /\ c[t].key = key => t = s
    BY <1>1
  <2>2. s <= s
    BY CacheAssumption DEF Slot
  <2>3. /\ c[s].use = 1 /\ c[s].key = key
        /\ \A t \in Slot : c[t].use = 1 /\ c[t].key = key => s <= t
    BY <1>1, <2>1, <2>2
  <2>4. First \in Slot /\ c[First].use = 1 /\ c[First].key = key
    BY <2>3
  <2>5. First = s
    BY <2>1, <2>4
  <2>6. Shows(c, d, key) = c[First].data
    BY <1>1 DEF Shows
  <2> QED
    BY <2>5, <2>6
<1>2. ASSUME \A s \in Slot : ~(c[s].use = 1 /\ c[s].key = key)
      PROVE  Shows(c, d, key) = d[key]
  BY <1>2 DEF Shows
<1> QED
  BY <1>1, <1>2

LEMMA ContentIs == CacheInv => ContentOK
<1> SUFFICES ASSUME CacheInv PROVE ContentOK
  OBVIOUS
<1>1. \A key : Content(key) = Shows(cache, disk, key)
  BY DEF Content, Shows, Cached, Holds, Used, Find
<1>2. \A s, t \in Slot : s # t /\ cache[s].use = 1 /\ cache[t].use = 1
        => cache[s].key # cache[t].key
  BY DEF CacheInv, Used
<1>3. ASSUME NEW key
      PROVE  /\ \A s \in Slot : Holds(s, key) => Content(key) = cache[s].data
             /\ ~Cached(key) => Content(key) = disk[key]
  BY <1>1, <1>2, ShowsIs DEF Holds, Used, Cached
<1> QED
  BY <1>3 DEF ContentOK

LEMMA ContentIsNext == CacheInv' => ContentOK'
<1> SUFFICES ASSUME CacheInv' PROVE ContentOK'
  OBVIOUS
<1>1. \A key : Content(key)' = Shows(cache', disk', key)
  BY DEF Content, Shows, Cached, Holds, Used, Find
<1>2. \A s, t \in Slot : s # t /\ cache'[s].use = 1 /\ cache'[t].use = 1
        => cache'[s].key # cache'[t].key
  BY DEF CacheInv, Used
<1>3. ASSUME NEW key
      PROVE  /\ \A s \in Slot : Holds(s, key)' => Content(key)' = cache'[s].data
             /\ ~Cached(key)' => Content(key)' = disk'[key]
  BY <1>1, <1>2, ShowsIs DEF Holds, Used, Cached
<1> QED
  BY <1>3 DEF ContentOK

\* With the write-through layer, what a caller sees between two calls is on the
\* disk, unless the disk failed.
THEOREM WriteThroughCorrect == Spec => []WriteThrough
<1>1. ASSUME IInv, wt, req = None, faults = 0, NEW key \in Key
      PROVE  Content(key) = disk[key]
  <2>1. ContentOK
    BY <1>1, ContentIs DEF IInv
  <2>2. CASE Cached(key)
    <3>1. PICK s \in Slot : Holds(s, key)
      BY <2>2 DEF Cached
    <3>2. ~cache[s].dirty /\ Used(s)
      BY <1>1, <3>1 DEF IInv, CallInv, Dirty, Holds
    <3>3. op.at # "through" /\ ~(faults > 0)
      BY <1>1 DEF IInv, CallInv
    <3>4. cache[s].data = disk[key]
      BY <1>1, <3>1, <3>2, <3>3 DEF IInv, CacheInv, Holds
    <3> QED
      BY <2>1, <3>1, <3>4 DEF ContentOK
  <2>3. CASE ~Cached(key)
    BY <2>1, <2>3 DEF ContentOK
  <2> QED
    BY <2>2, <2>3
<1>2. IInv => WriteThrough
  BY <1>1 DEF WriteThrough
<1> QED
  BY <1>2, InvCorrect, PTL

LEMMA SameContent ==
  ASSUME UNCHANGED <<cache, disk>>
  PROVE  \A key : Content(key)' = Content(key)
  BY DEF Content, Cached, Find, Holds, Used

LEMMA InitMaps == Init => BS!Init
<1> SUFFICES ASSUME Init PROVE BS!Init
  OBVIOUS
<1>1. \A key : Content(key) = disk[key]
  BY DEF Init, Content, Cached, Holds, Used, Empty
<1>2. [key \in Key |-> Content(key)] = disk
  BY <1>1 DEF Init
<1>3. BS!Key = Key /\ BS!Size = Size /\ BS!None = None /\ BS!Ok = Ok
  BY DEF BS!Key, Key, BS!Size, Size, BS!None, None, BS!Ok, Ok
<1> QED
  BY <1>2, <1>3 DEF Init, BS!Init

Seen == [key \in Key |-> Content(key)]

\* Two steps are alike to the caller if they leave every block its content.
LEMMA SeenSame == (\A key \in Key : Content(key)' = Content(key)) => Seen' = Seen
  BY DEF Seen

LEMMA NamesAgree ==
  /\ BS!Key = Key /\ BS!Size = Size /\ BS!None = None /\ BS!Ok = Ok /\ BS!Err = Err
  /\ BS!AllInos = AllInos
  BY DEF BS!Key, Key, BS!Size, Size, BS!None, None, BS!Ok, Ok, BS!Err, Err, BS!AllInos, AllInos

\* What the caller sees are contents of blocks.
LEMMA SeenType == IInv => Seen \in [Key -> Data] /\ disk \in [Key -> Data]
<1> SUFFICES ASSUME IInv PROVE Seen \in [Key -> Data] /\ disk \in [Key -> Data]
  OBVIOUS
<1>1. ContentOK /\ disk \in [Key -> Data]
  BY ContentIs DEF IInv, TypeOK
<1>2. \A s \in Slot : Used(s) => cache[s].data \in Data
  BY Parts DEF IInv, Entry
<1>3. ASSUME NEW key \in Key PROVE Content(key) \in Data
  BY <1>1, <1>2, <1>3 DEF ContentOK, Cached, Holds
<1> QED
  BY <1>1, <1>3 DEF Seen

\* Blocks K that fall back to what is on the disk: each is one or the other.
LEMMA LostIs ==
  ASSUME IInv, NEW K, Seen' = [key \in BS!Key |-> IF key \in K THEN disk[key] ELSE Seen[key]]
  PROVE  /\ Seen' \in [BS!Key -> Data]
         /\ \A key \in BS!Key : Seen'[key] \in {disk[key], Seen[key]}
  BY SeenType, NamesAgree

LEMMA StaysIs ==
  ASSUME IInv, Seen' = Seen
  PROVE  /\ Seen' \in [BS!Key -> Data]
         /\ \A key \in BS!Key : Seen'[key] \in {disk[key], Seen[key]}
  BY SeenType, NamesAgree

LEMMA RequestMaps ==
  ASSUME IInv, Request
  PROVE  BS!Request
<1>1. Seen' = Seen
  BY SameContent, SeenSame DEF Request
<1>2. Requests \subseteq BS!Requests
  <2>1. Reads \cup Writes \subseteq BS!Requests
    BY NamesAgree DEF Reads, Writes, BS!Requests
  <2>2. Syncs \subseteq BS!Requests
    BY NamesAgree, CallAssumption DEF Syncs, BS!Requests
  <2>3. ASSUME NEW r \in SetSizes PROVE r \in BS!Requests
    <3>1. PICK i \in Inos : r \in [call : {"setsize"}, ino : {i}, size : 0..MaxSize[i]]
      BY <2>3 DEF SetSizes
    <3>2. MaxSize[i] \in Nat
      BY SizeAssumption
    <3>3. r.ino = i /\ r.size \in Nat /\ r.size <= MaxSize[i]
          /\ r \in [call : {"setsize"}, ino : Inos, size : Nat]
      BY <3>1, <3>2
    <3> QED
      BY <3>3 DEF BS!Requests
  <2> QED
    BY <2>1, <2>2, <2>3 DEF Requests
<1> QED
  BY <1>1, <1>2, NamesAgree DEF Request, InRange, Seen, BS!Request

\* A read returns what the caller sees, or fails.
LEMMA ReadMaps ==
  ASSUME IInv, ReadHit \/ ReadMiss \/ ReadFails
  PROVE  [BS!Next]_(BS!bvars)
<1>1. Seen' = Seen
  BY SameContent, SeenSame DEF ReadHit, ReadMiss, ReadFails
<1>2. ContentOK
  BY ContentIs DEF IInv
<1>3. req.call = "read" /\ req \in Reads /\ req.key \in Key
  BY Parts DEF IInv, ReadHit, ReadMiss, ReadFails, Serves, Reads
<1>4. CASE ReadHit
  <2>1. Find(req.key) \in Slot /\ Holds(Find(req.key), req.key)
    BY <1>4, FindIs DEF ReadHit
  <2>2. cache[Find(req.key)].data = Seen[req.key]
    BY <1>2, <1>3, <2>1 DEF ContentOK, Seen
  <2>3. InRange(req.key)
    BY <2>1 DEF IInv, CacheInv, Holds
  <2>4. BS!Read
    BY <1>1, <1>3, <1>4, <2>2, <2>3, NamesAgree
       DEF BS!Read, BS!Return, ReadHit, Return, InRange, Seen
  <2> QED
    BY <2>4 DEF BS!Next
<1>5. CASE ReadMiss
  <2>1. UNCHANGED <<disk, size, req, ret, faults>>
    BY <1>5 DEF ReadMiss, GoTo, Works
  <2> QED
    BY <1>1, <2>1 DEF BS!bvars, Seen
<1>6. CASE ReadFails
  <2>1. req' = None /\ ret' = Err /\ UNCHANGED <<disk, size>>
    BY <1>6 DEF ReadFails, Return
  <2>2. CASE InRange(req.key)
    <3>1. faults' = faults + 1
      BY <1>6, <2>2 DEF ReadFails, Fails
    <3>2. /\ Seen' \in [BS!Key -> Data]
          /\ \A key \in BS!Key : Seen'[key] \in {disk[key], Seen[key]}
      BY <1>1, StaysIs
    <3>3. BS!Fault
      BY <2>1, <3>1, <3>2, NamesAgree DEF BS!Fault, BS!Return, Seen
    <3> QED
      BY <3>3 DEF BS!Next
  <2>3. CASE ~InRange(req.key)
    <3>1. faults' = faults
      BY <1>6, <2>3 DEF ReadFails, Works
    <3>2. BS!Read
      BY <1>1, <1>3, <2>1, <2>3, <3>1, NamesAgree DEF BS!Read, BS!Return, InRange, Seen
    <3> QED
      BY <3>2 DEF BS!Next
  <2> QED
    BY <2>2, <2>3
<1> QED
  BY <1>4, <1>5, <1>6

\* A write changes the content of its block and of no other.
LEMMA WriteMaps ==
  ASSUME IInv, IInv', WriteHit \/ WriteMiss
  PROVE  [BS!Next]_(BS!bvars)
<1>1. ContentOK /\ ContentOK'
  BY ContentIs, ContentIsNext DEF IInv
<1>2. PICK k \in Key, d \in Data : req.call = "write" /\ req.key = k /\ req.data = d
  BY Parts DEF IInv, WriteHit, WriteMiss, Serves, Writes
<1>3. CASE WriteHit
  <2>1. PICK f \in Slot : f = Find(k) /\ Holds(f, k)
    BY <1>2, <1>3, FindIs DEF WriteHit
  <2>2. cache[f] \in Entry
    BY <2>1, Parts DEF IInv, Holds
  <2>3. /\ cache'[f].use = 1 /\ cache'[f].key = k /\ cache'[f].data = d
        /\ \A s \in Slot : s # f => cache'[s] = cache[s]
    <3>1. cache' = [cache EXCEPT ![f].data = d, ![f].dirty = ~wt]
      BY <1>2, <1>3, <2>1 DEF WriteHit
    <3> QED
      BY <2>1, <2>2, <3>1 DEF IInv, TypeOK, Entry, Holds, Used
  <2>4. Content(k)' = d
    <3>1. Holds(f, k)'
      BY <2>3 DEF Holds, Used
    <3> QED
      BY <1>1, <2>3, <3>1 DEF ContentOK
  <2>5. ASSUME NEW key \in Key, key # k PROVE Content(key)' = Content(key)
    <3>1. \A s \in Slot : Holds(s, key)' <=> Holds(s, key)
      BY <2>1, <2>3, <2>5 DEF Holds, Used
    <3>2. \A s \in Slot : Holds(s, key) => cache'[s].data = cache[s].data
      BY <2>1, <2>3, <2>5 DEF Holds
    <3>3. disk' = disk
      BY <1>3 DEF WriteHit
    <3> QED
      BY <1>1, <3>1, <3>2, <3>3 DEF ContentOK, Cached
  <2>6. Seen' = [Seen EXCEPT ![k] = d]
    BY <2>4, <2>5 DEF Seen
  <2>7. /\ UNCHANGED <<disk, size, faults>>
        /\ (req' = None /\ ret' = Ok) \/ (req' = req /\ ret' = ret)
    BY <1>3 DEF WriteHit, GoTo, Return
  <2>8. BS!Write
    BY <1>2, <2>6, <2>7, NamesAgree DEF BS!Write, BS!Return, BS!Busy, Seen
  <2> QED
    BY <2>8 DEF BS!Next
<1>4. CASE WriteMiss
  <2>1. UNCHANGED <<cache, disk, size, req, ret, faults>>
    BY <1>4 DEF WriteMiss, GoTo
  <2>2. Seen' = Seen
    BY <2>1, SameContent, SeenSame
  <2> QED
    BY <2>1, <2>2 DEF BS!bvars, Seen
<1> QED
  BY <1>3, <1>4

\* Evicting a dirty block makes it permanent; evicting a clean one changes nothing;
\* a failure to write loses it.
LEMMA EvictMaps ==
  ASSUME IInv, IInv', Evict, "through" \notin Faulty
  PROVE  [BS!Next]_(BS!bvars)
<1>1. ContentOK /\ ContentOK'
  BY ContentIs, ContentIsNext DEF IInv
<1>2. PICK v \in Slot : v = Victim
  BY VictimIs DEF IInv
<1>3. /\ op.at = "evict"
      /\ \/ /\ Dirty(v) /\ Works
            /\ disk' = [disk EXCEPT ![cache[v].key] = cache[v].data]
         \/ Dirty(v) /\ Fails("evict") /\ disk' = disk
         \/ ~Dirty(v) /\ Works /\ disk' = disk
      /\ cache' = [cache EXCEPT ![v] = Empty]
      /\ UNCHANGED <<size, req, ret>>
  BY <1>2 DEF Evict, GoTo
<1>4. ~Used(v)' /\ \A s \in Slot : s # v => cache'[s] = cache[s]
  <2>1. cache'[v] = Empty /\ \A s \in Slot : s # v => cache'[s] = cache[s]
    BY <1>2, <1>3 DEF IInv, TypeOK
  <2> QED
    BY <2>1 DEF Used, Empty
<1>5. ASSUME NEW key, ~Holds(v, key), disk'[key] = disk[key]
      PROVE  Content(key)' = Content(key)
  <2>1. \A s \in Slot : Holds(s, key)' <=> Holds(s, key)
    BY <1>4, <1>5 DEF Holds, Used
  <2>2. \A s \in Slot : Holds(s, key) => cache'[s].data = cache[s].data
    BY <1>4, <1>5
  <2> QED
    BY <1>1, <1>5, <2>1, <2>2 DEF ContentOK, Cached
<1>6. ASSUME NEW key, Holds(v, key)
      PROVE  Content(key)' = disk'[key] /\ Content(key) = cache[v].data
  <2>1. \A s \in Slot : ~Holds(s, key)'
    BY <1>4, <1>6 DEF Holds, Used, IInv, CacheInv
  <2> QED
    BY <1>1, <1>6, <2>1 DEF ContentOK, Cached
<1>7. CASE Dirty(v)
  <2>1. PICK k \in Key : k = cache[v].key /\ Holds(v, k) /\ cache[v].data \in Data
    BY <1>7, Parts DEF IInv, Dirty, Holds, Entry
  <2>2. \A key : Holds(v, key) => key = k
    BY <2>1 DEF Holds
  <2>3. CASE Works /\ disk' = [disk EXCEPT ![k] = cache[v].data]
    <3>1. disk'[k] = cache[v].data /\ \A key \in Key : key # k => disk'[key] = disk[key]
      BY <2>1, <2>3 DEF IInv, TypeOK
    <3>2. Seen' = Seen
      BY <1>5, <1>6, <2>1, <2>2, <3>1, SeenSame
    <3>3. disk' = [disk EXCEPT ![k] = Seen[k]]
      BY <1>6, <2>1, <2>3 DEF Seen
    <3>4. Seen \in [Key -> Data] /\ disk \in [Key -> Data]
      BY SeenType
    <3>5. BS!Persist
      BY <1>3, <2>1, <2>3, <3>2, <3>3, <3>4, NamesAgree DEF BS!Persist, Seen, Works
    <3> QED
      BY <2>1, <3>5, NamesAgree DEF BS!Next
  <2>4. CASE Fails("evict") /\ disk' = disk
    <3>1. Seen' = [key \in BS!Key |-> IF key \in {k} THEN disk[key] ELSE Seen[key]]
      BY <1>5, <1>6, <2>1, <2>2, <2>4, NamesAgree DEF Seen
    <3>2. BS!Fault
      <4>1. {k} \in SUBSET BS!Key
        BY NamesAgree
      <4> QED
        BY <1>3, <2>4, <3>1, <4>1, LostIs DEF BS!Fault, BS!Busy, Seen, Fails
    <3> QED
      BY <3>2 DEF BS!Next
  <2> QED
    BY <1>3, <1>7, <2>1, <2>3, <2>4
<1>8. CASE ~Dirty(v)
  <2>1. Works /\ disk' = disk
    BY <1>3, <1>8
  <2>2. ASSUME NEW key \in Key, Holds(v, key) PROVE cache[v].data = disk[key]
    BY <1>3, <1>8, <2>2 DEF IInv, CacheInv, Holds, Dirty
  <2>3. Seen' = Seen
    BY <1>5, <1>6, <2>1, <2>2, SeenSame
  <2> QED
    BY <1>3, <2>1, <2>3 DEF BS!bvars, Seen, Works
<1> QED
  BY <1>7, <1>8

\* A miss ends: a read has the block of the disk in the cache now, a write its own.
LEMMA FillMaps ==
  ASSUME IInv, IInv', Fill
  PROVE  BS!Next
<1>1. ContentOK /\ ContentOK'
  BY ContentIs, ContentIsNext DEF IInv
<1>2. PICK h \in Slot, k \in Key, d \in Data :
        /\ h = clock_hand /\ ~Used(h) /\ req.key = k /\ op.data = d
        /\ req.call \in {"read", "write"} /\ ~Cached(k) /\ InRange(k)
        /\ d = IF req.call = "read" THEN disk[k] ELSE req.data
  <2>1. /\ clock_hand \in Slot /\ ~Used(clock_hand) /\ req.call \in {"read", "write"}
        /\ ~Cached(req.key) /\ InRange(req.key)
        /\ op.data = IF req.call = "read" THEN disk[req.key] ELSE req.data
    BY DEF Fill, IInv, CallInv, TypeOK
  <2>2. req.key \in Key /\ op.data \in Data
    BY <2>1, Parts DEF IInv, Reads, Writes, Fill
  <2> QED
    BY <2>1, <2>2
<1>3. /\ cache' = [cache EXCEPT ![h] = [use |-> 1, key |-> k, data |-> d, dirty |-> ~wt]]
      /\ IF req.call = "read" THEN Return(d)
         ELSE IF wt THEN GoTo(At("through")) ELSE Return(Ok)
      /\ UNCHANGED <<disk, size, faults>>
  BY <1>2 DEF Fill
<1>4. /\ cache'[h].use = 1 /\ cache'[h].key = k /\ cache'[h].data = d
      /\ \A s \in Slot : s # h => cache'[s] = cache[s]
  BY <1>2, <1>3 DEF IInv, TypeOK
<1>5. Content(k)' = d /\ Content(k) = disk[k]
  BY <1>1, <1>2, <1>4 DEF ContentOK, Holds, Used
<1>6. ASSUME NEW key \in Key, key # k PROVE Content(key)' = Content(key)
  <2>1. \A s \in Slot : Holds(s, key)' <=> Holds(s, key)
    BY <1>2, <1>4, <1>6 DEF Holds, Used
  <2>2. \A s \in Slot : Holds(s, key) => cache'[s].data = cache[s].data
    BY <1>2, <1>4, <1>6 DEF Holds
  <2> QED
    BY <1>1, <1>3, <2>1, <2>2 DEF ContentOK, Cached
<1>7. CASE req.call = "read"
  <2>1. Seen' = Seen /\ d = Seen[k]
    BY <1>2, <1>5, <1>6, <1>7, SeenSame DEF Seen
  <2>2. BS!Read
    BY <1>2, <1>3, <1>7, <2>1, NamesAgree DEF BS!Read, BS!Return, Return, InRange, Seen
  <2> QED
    BY <2>2 DEF BS!Next
<1>8. CASE req.call = "write"
  <2>1. Seen' = [Seen EXCEPT ![k] = d] /\ req.data = d
    BY <1>2, <1>5, <1>6, <1>8 DEF Seen
  <2>2. (req' = None /\ ret' = Ok) \/ (req' = req /\ ret' = ret)
    BY <1>3, <1>8 DEF Return, GoTo
  <2>3. BS!Write
    BY <1>2, <1>3, <1>8, <2>1, <2>2, NamesAgree DEF BS!Write, BS!Return, BS!Busy, Seen
  <2> QED
    BY <2>3 DEF BS!Next
<1> QED
  BY <1>2, <1>7, <1>8

\* A write-through makes permanent what the caller sees already.
LEMMA ThroughMaps ==
  ASSUME IInv, IInv', Through, "through" \notin Faulty
  PROVE  BS!Next
<1>1. ContentOK /\ ContentOK'
  BY ContentIs, ContentIsNext DEF IInv
<1>2. PICK f \in Slot, k \in Key :
        req.call = "write" /\ req.key = k /\ Holds(f, k) /\ cache[f].data = req.data
  BY Parts DEF IInv, CallInv, Through, Writes
<1>3. /\ disk' = [disk EXCEPT ![k] = req.data] /\ req' = None /\ ret' = Ok
      /\ UNCHANGED <<cache, size, faults>>
  BY <1>2 DEF Through, Fails, Works, Return
<1>4. \A key : \A s \in Slot : Holds(s, key)' <=> Holds(s, key)
  BY <1>3 DEF Holds, Used
<1>5. ASSUME NEW key \in Key PROVE Content(key)' = Content(key)
  <2>1. CASE Cached(key)
    BY <1>1, <1>3, <1>4, <2>1 DEF ContentOK, Cached
  <2>2. CASE ~Cached(key)
    <3>1. key # k /\ ~Cached(key)'
      BY <1>2, <1>4, <2>2 DEF Cached
    <3>2. disk'[key] = disk[key]
      BY <1>3, <1>5, <3>1 DEF IInv, TypeOK
    <3> QED
      BY <1>1, <2>2, <3>1, <3>2 DEF ContentOK
  <2> QED
    BY <2>1, <2>2
<1>6. Seen' = Seen /\ Seen[k] = req.data
  BY <1>1, <1>2, <1>5, SeenSame DEF ContentOK, Seen
<1>7. Seen' = [Seen EXCEPT ![k] = req.data]
  BY <1>6 DEF Seen
<1>8. BS!Write
  BY <1>2, <1>3, <1>7, NamesAgree DEF BS!Write, BS!Return, Seen
<1> QED
  BY <1>8 DEF BS!Next

\* Setting the size touches only the blocks beyond the new end, also when it fails.
LEMMA SetSizeMaps ==
  ASSUME IInv, IInv', SetSize
  PROVE  BS!Next
<1>1. ContentOK /\ ContentOK'
  BY ContentIs, ContentIsNext DEF IInv
<1>2. PICK i \in Inos, n \in Nat : req.call = "setsize" /\ req.ino = i /\ req.size = n
  BY Parts, SetSizeIs DEF IInv, SetSize, Serves
<1>3. /\ cache' = [s \in Slot |-> IF Used(s) /\ cache[s].key[1] = i /\ cache[s].key[2] >= n
                                  THEN Empty ELSE cache[s]]
      /\ disk' = disk
      /\ \/ Works /\ size' = [size EXCEPT ![i] = n] /\ Return(Ok)
         \/ Fails("setsize") /\ size' = size /\ Return(Err)
  BY <1>2 DEF SetSize
<1> DEFINE K == {key \in Key : key[1] = i /\ key[2] >= n}
<1>4. ASSUME NEW key \in Key, key \notin K PROVE Content(key)' = Content(key)
  <2>1. ASSUME NEW s \in Slot, Holds(s, key) PROVE Holds(s, key)' /\ cache'[s] = cache[s]
    BY <1>3, <1>4, <2>1 DEF Holds, Used
  <2>2. ASSUME NEW s \in Slot, Holds(s, key)' PROVE Holds(s, key)
    BY <1>3, <1>4, <2>2 DEF Holds, Used, Empty
  <2> QED
    BY <1>1, <1>3, <2>1, <2>2 DEF ContentOK, Cached
<1>5. ASSUME NEW key \in K PROVE Content(key)' = disk[key]
  <2>1. \A s \in Slot : ~Holds(s, key)'
    BY <1>3, <1>5 DEF Holds, Used, Empty
  <2> QED
    BY <1>1, <1>3, <2>1 DEF ContentOK, Cached
<1>6. K \in SUBSET BS!Key
  BY NamesAgree
<1>7. CASE Works /\ size' = [size EXCEPT ![i] = n] /\ Return(Ok)
  <2>1. Seen' \in [BS!Key -> Data]
    <3>1. ASSUME NEW key \in Key PROVE Content(key)' \in Data
      <4>1. disk'[key] \in Data /\ \A s \in Slot : Used(s)' => cache'[s].data \in Data
        <5>1. TypeOK' /\ TypeOK
          BY DEF IInv
        <5>2. \A s \in Slot : Used(s)' => Used(s) /\ cache'[s] = cache[s]
          BY <1>3 DEF Used, Empty
        <5>3. \A s \in Slot : Used(s) => cache[s].data \in Data
          BY <5>1, Parts DEF Entry
        <5> QED
          BY <5>1, <5>2, <5>3 DEF TypeOK
      <4> QED
        BY <1>1, <4>1 DEF ContentOK, Cached, Holds
    <3> QED
      BY <3>1, NamesAgree DEF Seen
  <2>2. \A key \in Key : key[1] # i \/ key[2] < n => Seen'[key] = Seen[key]
    <3>1. \A key \in Key : key[1] # i \/ key[2] < n => key \notin K
      BY <1>2, KeyIs
    <3>2. \A key \in Key : key \notin K => Seen'[key] = Seen[key]
      BY <1>4 DEF Seen
    <3> QED
      BY <3>1, <3>2
  <2>3. BS!SetSize
    BY <1>2, <1>3, <1>7, <2>1, <2>2, NamesAgree DEF BS!SetSize, BS!Return, Return, Works, Seen
  <2> QED
    BY <2>3 DEF BS!Next
<1>8. CASE Fails("setsize") /\ size' = size /\ Return(Err)
  <2>1. Seen' = [key \in BS!Key |-> IF key \in K THEN disk[key] ELSE Seen[key]]
    BY <1>4, <1>5, NamesAgree DEF Seen
  <2>2. BS!Fault
    BY <1>3, <1>6, <1>8, <2>1, NamesAgree, LostIs DEF BS!Fault, BS!Return, Return, Fails, Seen
  <2> QED
    BY <2>2 DEF BS!Next
<1> QED
  BY <1>3, <1>7, <1>8

\* Syncing a slot makes permanent what the caller sees already; at the end of a
\* sync nothing of its inode is left to write.
LEMMA SyncMaps ==
  ASSUME IInv, IInv', SyncStart \/ SyncSlot \/ SyncBelow,
         "through" \notin Faulty, AllInos \notin SyncInos
  PROVE  [BS!Next]_(BS!bvars)
<1>1. ContentOK /\ ContentOK'
  BY ContentIs, ContentIsNext DEF IInv
<1>2. ASSUME NEW e, Seen' = Seen, UNCHANGED <<disk, size>>, Fails(e), Return(Err)
      PROVE  BS!Next
  <2>1. /\ Seen' \in [BS!Key -> Data]
        /\ \A key \in BS!Key : Seen'[key] \in {disk[key], Seen[key]}
    BY <1>2, StaysIs
  <2>2. BS!Fault
    BY <1>2, <2>1, NamesAgree DEF BS!Fault, BS!Return, Return, Fails, Seen
  <2> QED
    BY <2>2 DEF BS!Next
<1>3. CASE SyncStart
  <2>1. UNCHANGED <<cache, disk, size, req, ret, faults>>
    BY <1>3 DEF SyncStart, GoTo
  <2>2. Seen' = Seen
    BY <2>1, SameContent, SeenSame
  <2> QED
    BY <2>1, <2>2 DEF BS!bvars, Seen
<1>4. CASE SyncSlot
  <2>1. PICK r \in Slot : r = op.slot
    BY <1>4, Parts, CacheAssumption DEF SyncSlot, IInv, Slot
  <2>2. /\ size' = size
        /\ \/ /\ ToSync(r) /\ Works
              /\ disk' = [disk EXCEPT ![cache[r].key] = cache[r].data]
              /\ cache' = [cache EXCEPT ![r].dirty = FALSE]
              /\ GoTo([at |-> "sync", slot |-> r + 1])
           \/ /\ ToSync(r) /\ Fails("sync")
              /\ Return(Err)
              /\ disk' = disk /\ cache' = cache
           \/ /\ ~ToSync(r) /\ Works
              /\ GoTo([at |-> "sync", slot |-> r + 1])
              /\ disk' = disk /\ cache' = cache
    BY <1>4, <2>1 DEF SyncSlot
  <2>3. CASE /\ ToSync(r) /\ Works
             /\ disk' = [disk EXCEPT ![cache[r].key] = cache[r].data]
             /\ cache' = [cache EXCEPT ![r].dirty = FALSE]
             /\ GoTo([at |-> "sync", slot |-> r + 1])
    <3>1. PICK k \in Key : k = cache[r].key /\ Holds(r, k) /\ cache[r] \in Entry
      BY <2>3, Parts DEF IInv, ToSync, Dirty, Holds, Entry
    <3>2. \A s \in Slot : /\ cache'[s].use = cache[s].use
                          /\ Used(s) => cache'[s].key = cache[s].key /\ cache'[s].data = cache[s].data
      BY <2>3, <3>1 DEF IInv, TypeOK, Entry, Used
    <3>3. \A key : \A s \in Slot : Holds(s, key)' <=> Holds(s, key)
      BY <3>2 DEF Holds, Used
    <3>4. disk' = [disk EXCEPT ![k] = cache[r].data]
      BY <2>3, <3>1
    <3>5. Content(k) = cache[r].data
      BY <1>1, <3>1 DEF ContentOK
    <3>6. ASSUME NEW key \in Key PROVE Content(key)' = Content(key)
      <4>1. CASE Cached(key)
        <5>1. PICK s \in Slot : Holds(s, key)
          BY <4>1 DEF Cached
        <5>2. Holds(s, key)' /\ cache'[s].data = cache[s].data
          BY <3>2, <3>3, <5>1 DEF Holds
        <5> QED
          BY <1>1, <5>1, <5>2 DEF ContentOK
      <4>2. CASE ~Cached(key)
        <5>1. key # k /\ ~Cached(key)'
          BY <3>1, <3>3, <4>2 DEF Cached
        <5>2. disk'[key] = disk[key]
          BY <3>4, <3>6, <5>1 DEF IInv, TypeOK
        <5> QED
          BY <1>1, <4>2, <5>1, <5>2 DEF ContentOK
      <4> QED
        BY <4>1, <4>2
    <3>7. Seen' = Seen
      BY <3>6, SeenSame
    <3>8. disk' = [disk EXCEPT ![k] = Seen[k]]
      BY <3>1, <3>4, <3>5 DEF Seen
    <3>9. Seen \in [Key -> Data] /\ disk \in [Key -> Data]
      BY SeenType
    <3>10. BS!Persist
      BY <2>2, <2>3, <3>1, <3>7, <3>8, <3>9, NamesAgree DEF BS!Persist, Seen, Works, GoTo
    <3> QED
      BY <3>1, <3>10, NamesAgree DEF BS!Next
  <2>4. CASE ToSync(r) /\ Fails("sync") /\ Return(Err) /\ disk' = disk /\ cache' = cache
    BY <1>2, <2>2, <2>4, SameContent, SeenSame
  <2>5. CASE /\ ~ToSync(r) /\ Works
             /\ GoTo([at |-> "sync", slot |-> r + 1])
             /\ disk' = disk /\ cache' = cache
    <3>1. Seen' = Seen
      BY <2>5, SameContent, SeenSame
    <3> QED
      BY <2>2, <2>5, <3>1 DEF BS!bvars, Seen, Works, GoTo
  <2> QED
    BY <2>2, <2>3, <2>4, <2>5
<1>5. CASE SyncBelow
  <2>1. UNCHANGED <<cache, disk, size>> /\ op.at = "sync" /\ op.slot = NBlocks
    BY <1>5 DEF SyncBelow
  <2>2. Seen' = Seen
    BY <2>1, SameContent, SeenSame
  <2>3. CASE Works /\ Return(Ok)
    <3>1. req.call = "sync" /\ req.ino # AllInos
      BY <2>1, Parts DEF IInv, CallInv, Syncs
    <3>2. \A s \in Slot : ~ToSync(s)
      <4>1. \A s \in Slot : s < op.slot
        BY <2>1, CacheAssumption DEF Slot
      <4> QED
        BY <2>1, <4>1 DEF IInv, CallInv
    <3>3. ASSUME NEW key \in Key, key[1] = req.ino PROVE Content(key) = disk[key]
      <4>1. CASE Cached(key)
        <5>1. PICK s \in Slot : Holds(s, key)
          BY <4>1 DEF Cached
        <5>2. Used(s) /\ cache[s].key = key /\ ~Dirty(s)
          BY <3>2, <3>3, <5>1 DEF Holds, ToSync
        <5>3. cache[s].data = disk[key]
          BY <2>1, <5>2 DEF IInv, CacheInv, Dirty
        <5> QED
          BY <1>1, <5>1, <5>3 DEF ContentOK
      <4>2. CASE ~Cached(key)
        BY <1>1, <4>2 DEF ContentOK
      <4> QED
        BY <4>1, <4>2
    <3>4. \A key \in BS!KeysOf(req.ino) : disk[key] = Seen[key]
      BY <3>1, <3>3, NamesAgree DEF BS!KeysOf, BS!AllInos, AllInos, Seen
    <3>5. BS!Sync
      BY <2>1, <2>2, <2>3, <3>1, <3>4, NamesAgree DEF BS!Sync, BS!Return, Return, Works, Seen
    <3> QED
      BY <3>5 DEF BS!Next
  <2>4. CASE Fails("sync") /\ Return(Err)
    BY <1>2, <2>1, <2>2, <2>4
  <2> QED
    BY <1>5, <2>3, <2>4 DEF SyncBelow
<1> QED
  BY <1>3, <1>4, <1>5

\* After a crash the caller sees what was on the disk.
LEMMA CrashMaps ==
  ASSUME IInv, IInv', Crash
  PROVE  BS!Next
<1>1. ContentOK'
  BY ContentIsNext DEF IInv
<1>2. cache' = [s \in Slot |-> Empty] /\ req' = None /\ UNCHANGED <<disk, size, ret, faults>>
  BY DEF Crash
<1>3. \A key \in Key : Content(key)' = disk[key]
  <2>1. \A key : ~Cached(key)'
    BY <1>2 DEF Cached, Holds, Used, Empty
  <2> QED
    BY <1>1, <1>2, <2>1 DEF ContentOK
<1>4. Seen' = disk
  BY <1>3 DEF Seen, IInv, TypeOK
<1>5. BS!Crash
  BY <1>2, <1>4, NamesAgree, SeenType DEF BS!Crash, Seen
<1> QED
  BY <1>5 DEF BS!Next

\* Either cache over a disk is a block store: it shows the last write, a sync makes
\* it permanent, evictions and crashes are not seen.  Two things must not happen:
\* the write of wtclockdisk_write() failing after it has updated the cache, and a
\* sync of all inodes, which clockdisk_sync() takes for an inode of that number.
THEOREM Refinement ==
  ASSUME "through" \notin Faulty, AllInos \notin SyncInos
  PROVE  Spec => IsBlockStore
<1>1. ASSUME IInv, IInv', [Next]_vars PROVE [BS!Next]_(BS!bvars)
  <2>1. CASE UNCHANGED vars
    <3>1. UNCHANGED <<cache, disk, size, req, ret, faults>>
      BY <2>1 DEF vars
    <3>2. Seen' = Seen
      BY <3>1, SameContent, SeenSame
    <3> QED
      BY <3>1, <3>2 DEF BS!bvars, Seen
  <2>2. CASE Request
    BY <1>1, <2>2, RequestMaps DEF BS!Next
  <2>3. CASE ReadHit \/ ReadMiss \/ ReadFails
    BY <1>1, <2>3, ReadMaps
  <2>4. CASE WriteHit \/ WriteMiss
    BY <1>1, <2>4, WriteMaps
  <2>5. CASE Evict
    BY <1>1, <2>5, EvictMaps
  <2>6. CASE Fill
    BY <1>1, <2>6, FillMaps
  <2>7. CASE Through
    BY <1>1, <2>7, ThroughMaps
  <2>8. CASE SetSize
    BY <1>1, <2>8, SetSizeMaps
  <2>9. CASE SyncStart \/ SyncSlot \/ SyncBelow
    BY <1>1, <2>9, SyncMaps
  <2>10. CASE Crash
    BY <1>1, <2>10, CrashMaps
  <2> QED
    BY <1>1, <2>1, <2>2, <2>3, <2>4, <2>5, <2>6, <2>7, <2>8, <2>9, <2>10 DEF Next
<1> QED
  BY <1>1, InitMaps, InvCorrect, PTL DEF Spec, IsBlockStore, BS!Spec

=============================================================================
