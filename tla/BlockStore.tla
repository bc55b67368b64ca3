----------------------------- MODULE BlockStore -----------------------------
(***************************************************************************)
(* What a block store promises its caller (src/h/egos/block_store.h).  An   *)
(* inode is an array of blocks.  A read returns what was last written, a    *)
(* successful sync makes it permanent, and when the machine stops only what *)
(* was written since may be lost.                                          *)
(***************************************************************************)
EXTENDS Integers

CONSTANTS
  Inos,      \* inode numbers
  MaxSize,   \* bound: blocks per inode, [Inos -> Nat]
  Data       \* contents of a block

AllInos == -1                        \* (unsigned int) -1
Key     == UNION {{i} \X (0..(MaxSize[i] - 1)) : i \in Inos}
Size    == {f \in [Inos -> UNION {0..MaxSize[i] : i \in Inos}] :
              \A i \in Inos : f[i] <= MaxSize[i]}
Ok      == "ok"                      \* returned 0
Err     == "error"                   \* returned -1

None == [call |-> "none"]
Requests ==
  [call : {"read"}, key : Key]
  \cup [call : {"write"}, key : Key, data : Data]
  \cup {r \in [call : {"setsize"}, ino : Inos, size : Nat] : r.size <= MaxSize[r.ino]}
  \cup [call : {"sync"}, ino : Inos \cup {AllInos}]

VARIABLES
  content,   \* what a read returns, per block
  stable,    \* what survives when the machine stops
  size,      \* blocks per inode
  req,       \* the call being served
  ret,       \* what the last call returned
  faults     \* how often the hardware failed

bvars == <<content, stable, size, req, ret, faults>>

KeysOf(i) == {key \in Key : i \in {key[1], AllInos}}

Init ==
  /\ content \in [Key -> Data]
  /\ stable = content
  /\ size \in Size
  /\ req = None
  /\ ret = Ok
  /\ faults = 0

\* A call arrives.  Writes are within the size of the inode.
Request ==
  /\ req = None /\ req' \in Requests
  /\ req'.call = "write" => req'.key[2] < size[req'.key[1]]
  /\ UNCHANGED <<content, stable, size, ret, faults>>

Return(result) == req' = None /\ ret' = result
Busy           == req' = req /\ ret' = ret

\* Blocks beyond the end cannot be read.
Read ==
  /\ req.call = "read"
  /\ Return(IF req.key[2] < size[req.key[1]] THEN content[req.key] ELSE Err)
  /\ UNCHANGED <<content, stable, size, faults>>

Write ==
  /\ req.call = "write"
  /\ content' = [content EXCEPT ![req.key] = req.data]
  /\ stable' \in {stable, [stable EXCEPT ![req.key] = req.data]}
  /\ Return(Ok) \/ Busy
  /\ UNCHANGED <<size, faults>>

\* Some of the blocks become permanent, at any time.
Persist ==
  /\ UNCHANGED <<req, ret, faults, size, content>>
  /\ stable' \in [Key -> Data]
  /\ \A key \in Key : stable'[key] \in {stable[key], content[key]}

\* Nothing is said of the blocks beyond the new end.
SetSize ==
  /\ req.call = "setsize"
  /\ size' = [size EXCEPT ![req.ino] = req.size]
  /\ content' \in [Key -> Data]
  /\ \A key \in Key : key[1] # req.ino \/ key[2] < req.size => content'[key] = content[key]
  /\ Return(Ok) \/ Busy
  /\ UNCHANGED <<stable, faults>>

Sync ==
  /\ req.call = "sync"
  /\ \A key \in KeysOf(req.ino) : stable[key] = content[key]
  /\ Return(Ok)
  /\ UNCHANGED <<content, stable, size, faults>>

\* A store that cannot do a call says so, and does nothing.
Refuse ==
  /\ req.call \in {"setsize", "sync"}
  /\ Return(Err)
  /\ UNCHANGED <<content, stable, size, faults>>

\* The machine stops: some of the blocks may just have become permanent.
Crash ==
  /\ req' = None
  /\ stable' \in [Key -> Data]
  /\ \A key \in Key : stable'[key] \in {stable[key], content[key]}
  /\ content' = stable'
  /\ UNCHANGED <<size, ret, faults>>

\* The hardware fails: blocks that were not permanent may be lost.
Fault ==
  /\ faults' = faults + 1
  /\ content' \in [Key -> Data]
  /\ \A key \in Key : content'[key] \in {stable[key], content[key]}
  /\ Return(Err) \/ Busy
  /\ UNCHANGED <<stable, size>>

Next ==
  \/ Request \/ Read \/ Write \/ SetSize \/ Sync \/ Refuse
  \/ Persist \/ Crash \/ Fault

Spec == Init /\ [][Next]_bvars
=============================================================================
