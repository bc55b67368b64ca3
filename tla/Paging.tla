------------------------------- MODULE Paging -------------------------------
(***************************************************************************)
(* Virtual memory: page faults and frames (grass/process.c), the TLB of the *)
(* machine (earth/tlb.c), and how system calls copy between kernel and user *)
(* space (grass/procsys.c).                                                *)
(*                                                                         *)
(* All processes have the same pages, those of one Unix process.  A page    *)
(* that is in the TLB holds a copy of its frame; it is copied back at traps *)
(* and when it leaves the TLB.  The kernel does not preempt itself: a       *)
(* process gives up the CPU when it waits, when it dies and, in user mode,  *)
(* at any time.                                                            *)
(***************************************************************************)
EXTENDS Integers, Sequences, SequencesExt, FiniteSets, FiniteSetsExt

CONSTANTS
  Procs,      \* slots of user processes
  Server,     \* a process without user space, that starts the others
  NPages,     \* VIRT_PAGES
  InExec,     \* the pages that are in the executable
  Stack,      \* the page of a new process's stack
  NFrames,    \* PHYS_FRAMES
  TlbSize,    \* TLB_SIZE
  Values,     \* contents of a page
  Zero,       \* a page of zeros
  Program     \* what the executable has for its pages

Page  == 1..NPages
Frame == 1..NFrames
Entry == 1..TlbSize

ASSUME SizeAssumption ==
  NPages \in Nat \ {0} /\ NFrames \in Nat \ {0} /\ TlbSize \in Nat \ {0}
ASSUME PageAssumption == InExec \subseteq Page /\ Stack \in Page
ASSUME ValueAssumption == Zero \in Values /\ Program \in [InExec -> Values]
ASSUME ServerAssumption == Server \notin Procs

VARIABLES
  cur,      \* proc_current
  state,    \* of the processes: "free", "runnable", "waiting", "zombie" on the run queue, or
            \* "dead", a zombie that is on no queue
  fresh,    \* those that have not run yet
  todo,     \* what the kernel has to do for a process before it runs in user mode
  pages,    \* page tables: a frame, or Uninit
  frames,   \* contents of the frames
  free,     \* proc_freeframes
  tlb,      \* its entries: page, frame, and whether the page may be written
  index,    \* tlb_index: the next entry to be used
  virt,     \* contents of the pages of the address space
  halted,   \* why the kernel has stopped, "no" if it runs
  mem,      \* history: the memory each process should see
  wrote     \* history: the page a process wrote last, where the arguments of its system call are

vars == <<cur, state, fresh, todo, pages, frames, free, tlb, index, virt, halted, mem, wrote>>

Uninit == 0
Unused == [virt |-> 0, phys |-> 0, write |-> FALSE]

\* A step of the kernel; write: the page will be written (update, of proc_pagefault()).
Do(op, v, write) == [op |-> op, page |-> v, write |-> write]

Running == halted = "no" /\ cur \in Procs /\ state[cur] = "runnable"
InUser  == Running /\ todo[cur] = <<>>
At(op)  == Running /\ todo[cur] # <<>> /\ Head(todo[cur]).op = op

\* The process may be in proc_yield(); interrupt handlers run there.
Yielding == halted = "no" /\ (cur \in Procs => state[cur] # "runnable" \/ todo[cur] = <<>>)

-----------------------------------------------------------------------------
(* The TLB.                                                                 *)

\* tlb_get_entry()
EntriesOf(v) == {i \in Entry : tlb[i].virt = v /\ tlb[i].phys # 0}
Mapped(v)    == EntriesOf(v) # {}
Writable(v)  == \E i \in EntriesOf(v) : tlb[i].write

\* tlb_sync_entry() of the entries E, when the pages have this content.
Synced(E, content) ==
  [f \in Frame |->
     LET D == {i \in E : tlb[i].phys = f /\ tlb[i].write}
     IN  IF D = {} THEN frames[f] ELSE content[tlb[CHOOSE i \in D : TRUE].virt]]

\* tlb_flush_entry()
Emptied(E) == [i \in Entry |-> IF i \in E THEN Unused ELSE tlb[i]]

\* tlb_map(): page v shows frame f, which has been given a content if there is one.
TlbMap(v, f, filled, content, write) ==
  LET i == IF Mapped(v) THEN CHOOSE j \in EntriesOf(v) : TRUE ELSE index
  IN  /\ frames' = [g \in Frame |-> IF filled /\ g = f THEN content ELSE Synced({i}, virt)[g]]
      /\ virt' = [virt EXCEPT ![v] = frames'[f]]
      /\ tlb' = [tlb EXCEPT ![i] = [virt |-> v, phys |-> f, write |-> write]]
      /\ index' = IF Mapped(v) THEN index ELSE (index % TlbSize) + 1

-----------------------------------------------------------------------------
Init ==
  /\ cur = Server
  /\ state = [p \in Procs |-> "free"]
  /\ fresh = {}
  /\ todo = [p \in Procs |-> <<>>]
  /\ pages = [p \in Procs |-> [v \in Page |-> Uninit]]
  /\ frames = [f \in Frame |-> Zero]
  /\ free = [f \in Frame |-> f]
  /\ tlb = [i \in Entry |-> Unused]
  /\ index = 1
  /\ virt = [v \in Page |-> Zero]
  /\ halted = "no"
  /\ mem = [p \in Procs |-> [v \in Page |-> Zero]]
  /\ wrote = [p \in Procs |-> 0]

(* A process in user mode.                                                  *)

\* It writes a page that it may write.
Write(v, x) ==
  /\ InUser
  /\ Writable(v)
  /\ virt' = [virt EXCEPT ![v] = x]
  /\ mem' = [mem EXCEPT ![cur][v] = x]
  /\ wrote' = [wrote EXCEPT ![cur] = v]
  /\ UNCHANGED <<cur, state, fresh, todo, pages, frames, free, tlb, index, halted>>

\* user_proc() after a trap: pages are written back, then the interrupt is handled.
Trap(steps) ==
  /\ frames' = Synced(Entry, virt)
  /\ todo' = [todo EXCEPT ![cur] = steps]
  /\ UNCHANGED <<cur, state, fresh, pages, free, tlb, index, virt, halted, mem>>

\* It touches a page that is not mapped, or writes one that is read-only.
Touch(v) ==
  /\ InUser
  /\ ~Writable(v)
  /\ Trap(<<Do("fault", v, TRUE)>>)
  /\ UNCHANGED wrote

\* proc_syscall(): the steps of a call whose arguments are in page s.  A rejected call, or a wait
\* that ends without a message, copies nothing out.  An address out of range ends the process, as
\* exit does.
Calls(s) ==
  LET in(v)  == Do("in", v, FALSE)
      out(v) == Do("out", v, TRUE)
      exit   == Do("exit", 0, FALSE)
      wait   == Do("wait", 0, FALSE)
  IN  {<<in(s), exit>>, <<in(s), out(s)>>, <<in(s), wait, out(s)>>}
      \cup {<<in(s), in(b), out(s)>> : b \in Page}
      \cup {<<in(s), wait, out(b), out(s)>> : b \in Page}
      \cup {<<in(s), out(b), out(s)>> : b \in Page}
      \cup {<<in(s), in(b), wait, out(s)>> : b \in Page}
      \cup {<<in(s), in(b), wait, out(c), out(s)>> : b, c \in Page}

\* sys_trap(), after the arguments have been written.
Syscall ==
  /\ InUser
  /\ wrote[cur] # 0
  /\ \E steps \in Calls(wrote[cur]) : Trap(steps)
  /\ wrote' = [wrote EXCEPT ![cur] = 0]

-----------------------------------------------------------------------------
(* The kernel, for the current process.                                     *)

\* copy_user(): a page that has no entry is faulted in first.
CopyFault ==
  /\ At("in") \/ At("out")
  /\ LET d == Head(todo[cur])
     IN  /\ ~Mapped(d.page)
         /\ todo' = [todo EXCEPT ![cur] = <<Do("fault", d.page, d.write)>> \o @]
  /\ UNCHANGED <<cur, state, fresh, pages, frames, free, tlb, index, virt, halted, mem, wrote>>

CopyIn ==
  /\ At("in")
  /\ Mapped(Head(todo[cur]).page)
  /\ todo' = [todo EXCEPT ![cur] = Tail(@)]
  /\ UNCHANGED <<cur, state, fresh, pages, frames, free, tlb, index, virt, halted, mem, wrote>>

\* The store into a page that is mapped for reading only is a fault of the kernel itself.
CopyOut(x) ==
  /\ At("out")
  /\ LET v == Head(todo[cur]).page
     IN  /\ Mapped(v)
         /\ \/ /\ Writable(v)
               /\ virt' = [virt EXCEPT ![v] = x]
               /\ frames' = Synced(Entry, virt')
               /\ mem' = [mem EXCEPT ![cur][v] = x]
               /\ todo' = [todo EXCEPT ![cur] = Tail(@)]
               /\ UNCHANGED halted
            \/ /\ ~Writable(v)
               /\ halted' = "fault"
               /\ UNCHANGED <<virt, frames, mem, todo>>
  /\ UNCHANGED <<cur, state, fresh, pages, free, tlb, index, wrote>>

\* proc_pagefault() of a page with a frame.
FaultMapped ==
  /\ At("fault")
  /\ LET d == Head(todo[cur])
         f == pages[cur][d.page]
     IN  f # Uninit /\ TlbMap(d.page, f, FALSE, Zero, d.write)
  /\ todo' = [todo EXCEPT ![cur] = Tail(@)]
  /\ UNCHANGED <<cur, state, fresh, pages, free, halted, mem, wrote>>

\* proc_frame_alloc() and frame_init(), which waits for the file server if the page is in the
\* executable.
FaultNew ==
  /\ At("fault")
  /\ LET d == Head(todo[cur])
     IN  /\ pages[cur][d.page] = Uninit
         /\ free # <<>>
         /\ pages' = [pages EXCEPT ![cur][d.page] = Head(free)]
         /\ \/ /\ d.page \in InExec
               /\ state' = [state EXCEPT ![cur] = "waiting"]
               /\ todo' = [todo EXCEPT ![cur] = <<[d EXCEPT !.op = "read"]>> \o Tail(@)]
               /\ UNCHANGED <<frames, tlb, index, virt>>
            \/ /\ d.page \notin InExec
               /\ TlbMap(d.page, Head(free), TRUE, Zero, d.write)
               /\ todo' = [todo EXCEPT ![cur] = Tail(@)]
               /\ UNCHANGED state
  /\ free' = Tail(free)
  /\ UNCHANGED <<cur, fresh, halted, mem, wrote>>

\* proc_frame_alloc() panics.
OutOfFrames ==
  /\ At("fault")
  /\ pages[cur][Head(todo[cur]).page] = Uninit
  /\ free = <<>>
  /\ halted' = "frames"
  /\ UNCHANGED <<cur, state, fresh, todo, pages, frames, free, tlb, index, virt, mem, wrote>>

\* frame_init() has the page, or there is no file server any more.
ReadDone ==
  /\ At("read")
  /\ LET d == Head(todo[cur])
     IN  TlbMap(d.page, pages[cur][d.page], TRUE, Program[d.page], d.write)
  /\ todo' = [todo EXCEPT ![cur] = Tail(@)]
  /\ UNCHANGED <<cur, state, fresh, pages, free, halted, mem, wrote>>
ReadFailed ==
  /\ At("read")
  /\ halted' = "read"
  /\ UNCHANGED <<cur, state, fresh, todo, pages, frames, free, tlb, index, virt, mem, wrote>>

\* proc_recv()
Wait ==
  /\ At("wait")
  /\ state' = [state EXCEPT ![cur] = "waiting"]
  /\ todo' = [todo EXCEPT ![cur] = Tail(@)]
  /\ UNCHANGED <<cur, fresh, pages, frames, free, tlb, index, virt, halted, mem, wrote>>

-----------------------------------------------------------------------------
(* Death.                                                                   *)

\* (a bug: entries are left)
UnmapNothing(p) == {}

\* The entries that proc_term() unmaps: it goes by page, whoever they belong to.
Unmapped(p) == UNION {EntriesOf(v) : v \in {w \in Page : pages[p][w] # Uninit}}

\* The frames of p, in the order of its pages.
FramesOf(p) ==
  LET S == {v \in Page : pages[p][v] # Uninit}
      n == Cardinality(S)
      q == CHOOSE q \in [1..n -> S] : \A i, j \in 1..n : i < j => q[i] < q[j]
  IN  [i \in 1..n |-> pages[p][q[i]]]

\* proc_term(), and what becomes of the process.
Term(p, result) ==
  /\ state' = [state EXCEPT ![p] = result]
  /\ frames' = Synced(Entry, virt)
  /\ tlb' = Emptied(Unmapped(p))
  /\ free' = free \o FramesOf(p)
  /\ fresh' = IF result = "free" THEN fresh \ {p} ELSE fresh
  /\ todo' = [todo EXCEPT ![p] = <<>>]
  /\ UNCHANGED <<cur, pages, index, virt, halted, mem, wrote>>

Exit == At("exit") /\ Term(cur, "dead")

\* proc_zap()
Kill(p) ==
  /\ Yielding
  /\ state[p] \in {"runnable", "waiting"}
  /\ Term(p, IF p = cur THEN "dead" ELSE IF state[p] = "waiting" THEN "free" ELSE "zombie")

-----------------------------------------------------------------------------
(* Scheduling.                                                              *)

\* proc_create(); user_proc() waits for the header of the executable and sets up the stack.
Spawn(p) ==
  /\ halted = "no" /\ cur = Server
  /\ state[p] = "free"
  /\ state' = [state EXCEPT ![p] = "runnable"]
  /\ fresh' = fresh \cup {p}
  /\ todo' = [todo EXCEPT ![p] = <<Do("wait", 0, FALSE), Do("out", Stack, TRUE)>>]
  /\ pages' = [pages EXCEPT ![p] = [v \in Page |-> Uninit]]
  /\ mem' = [mem EXCEPT ![p] = [v \in Page |-> IF v \in InExec THEN Program[v] ELSE Zero]]
  /\ wrote' = [wrote EXCEPT ![p] = 0]
  /\ UNCHANGED <<cur, frames, free, tlb, index, virt, halted>>

\* A message or a timeout.  A process that waits for a file wakes up only when its server has run.
Wake(p) ==
  /\ Yielding
  /\ state[p] = "waiting"
  /\ p = cur => /\ Head(todo[p]).op # "read"
                /\ \E v \in Page : pages[p][v] # Uninit
  /\ state' = [state EXCEPT ![p] = "runnable"]
  /\ UNCHANGED <<cur, fresh, todo, pages, frames, free, tlb, index, virt, halted, mem, wrote>>

\* proc_yield() finds a zombie on the run queue.
Reap(p) ==
  /\ Yielding
  /\ state[p] = "zombie"
  /\ state' = [state EXCEPT ![p] = "free"]
  /\ fresh' = fresh \ {p}
  /\ UNCHANGED <<cur, todo, pages, frames, free, tlb, index, virt, halted, mem, wrote>>

\* (a bug: the TLB is not flushed)
ResumeUnflushed(p) ==
  /\ Yielding
  /\ p # cur /\ p \notin fresh
  /\ p # Server => state[p] = "runnable"
  /\ cur' = p
  /\ state' = [q \in Procs |-> IF q = cur /\ state[q] = "dead" THEN "free" ELSE state[q]]
  /\ frames' = Synced(Entry, virt)
  /\ UNCHANGED <<fresh, todo, pages, free, tlb, index, virt, halted, mem, wrote>>

\* proc_yield() switches to a process that has run before: proc_after_switch().
Resume(p) ==
  /\ Yielding
  /\ p # cur /\ p \notin fresh
  /\ p # Server => state[p] = "runnable"
  /\ cur' = p
  /\ state' = [q \in Procs |-> IF q = cur /\ state[q] = "dead" THEN "free" ELSE state[q]]
  /\ frames' = Synced(Entry, virt)
  /\ tlb' = Emptied(Entry)
  /\ UNCHANGED <<fresh, todo, pages, free, index, virt, halted, mem, wrote>>

\* ctx_entry(), of a new one: neither releases a zombie nor flushes the TLB.
Start(p) ==
  /\ Yielding
  /\ p # cur /\ p \in fresh
  /\ state[p] = "runnable"
  /\ cur' = p
  /\ fresh' = fresh \ {p}
  /\ frames' = Synced(Entry, virt)
  /\ UNCHANGED <<state, todo, pages, free, tlb, index, virt, halted, mem, wrote>>

Next ==
  \/ \E v \in Page, x \in Values : Write(v, x)
  \/ \E v \in Page : Touch(v)
  \/ Syscall
  \/ CopyFault \/ CopyIn
  \/ \E x \in Values : CopyOut(x)
  \/ FaultMapped \/ FaultNew \/ OutOfFrames \/ ReadDone \/ ReadFailed
  \/ Wait \/ Exit
  \/ \E p \in Procs : Kill(p) \/ Spawn(p) \/ Wake(p) \/ Reap(p) \/ Start(p)
  \/ \E p \in Procs \cup {Server} : Resume(p)

Spec == Init /\ [][Next]_vars

-----------------------------------------------------------------------------
(* Properties.                                                              *)

Live(p) == state[p] \in {"runnable", "waiting"}

TypeOK ==
  /\ cur \in Procs \cup {Server}
  /\ state \in [Procs -> {"free", "runnable", "waiting", "zombie", "dead"}]
  /\ fresh \subseteq Procs
  /\ \A p \in Procs : \A i \in DOMAIN todo[p] :
       todo[p][i] \in [op : {"in", "out", "fault", "read", "wait", "exit"},
                       page : Page \cup {0}, write : BOOLEAN]
  /\ pages \in [Procs -> [Page -> Frame \cup {Uninit}]]
  /\ frames \in [Frame -> Values]
  /\ free \in Seq(Frame)
  /\ tlb \in [Entry -> [virt : Page, phys : Frame, write : BOOLEAN] \cup {Unused}]
  /\ index \in Entry
  /\ virt \in [Page -> Values]
  /\ halted \in {"no", "frames", "fault", "read"}
  /\ mem \in [Procs -> [Page -> Values]]
  /\ wrote \in [Procs -> Page \cup {0}]

\* What a process in user mode can read is its own memory with what was last written to it: the
\* TLB never shows it a page of the process that ran before, nor an old copy of its own (the flush
\* of proc_after_switch() and the order of frame_init() and tlb.map()).
OwnMemory ==
  InUser => \A v \in Page : Mapped(v) => pages[cur][v] # Uninit /\ virt[v] = mem[cur][v]

\* The memory of a process that is not running is in its frames, except pages still being read
\* from the executable (tlb.sync() after traps and after copies to the user).
SavedMemory ==
  \A p \in Procs \ {cur} : Live(p) => \A v \in Page :
    pages[p][v] # Uninit =>
      \/ frames[pages[p][v]] = mem[p][v]
      \/ \E i \in DOMAIN todo[p] : todo[p][i].op = "read" /\ todo[p][i].page = v

\* A process finds in its memory what it wrote there, while it runs and when it runs again.
MemoryKept == OwnMemory /\ SavedMemory

\* Every frame is either free or belongs to one page of one live process: none is lost when a
\* process dies, none is given away twice (proc_term() and proc_zap() of zombies).  No entry of
\* the TLB shows a free frame: writing it back would destroy the memory of the next owner
\* (tlb.unmap() in proc_term()).
FramesOwned ==
  /\ \A f \in Frame :
       Cardinality({i \in DOMAIN free : free[i] = f})
         + Cardinality({x \in Procs \X Page : Live(x[1]) /\ pages[x[1]][x[2]] = f}) = 1
  /\ \A i \in Entry, j \in DOMAIN free : tlb[i].phys # free[j]

\* proc_pagefault() looks for the page in the TLB before it gives it a frame and reads it in,
\* which may wait, and uses what it found afterwards: the page had no entry, as it asserts, and
\* still has none.
IndexStillRight ==
  At("read") \/ (At("fault") /\ pages[cur][Head(todo[cur]).page] = Uninit) =>
    ~Mapped(Head(todo[cur]).page)
=============================================================================
