# A TLA+ model of EGOS

EGOS is a small operating system that runs as one Unix process. `earth` turns
Unix signals, timers and file descriptors into interrupts, a TLB and devices;
`grass` is a microkernel with a few server processes inside it; `block` is a set
of block stores that stack on each other; `apps` are the servers and programs
that run in user mode. These modules model the parts whose correctness depends
on interleavings, failures and long sequences of calls. They are checked with
TLC, and the most important facts are proved with TLAPS for every value of the
constants.

`PROJECT.json` maps every definition to the lines it models and lists the runs,
the mutants (a plausible bug for every property, which the property must catch),
the hazards and the theorems.

## Inventory

| Component | State | Operations | What is hard | What makes it correct |
|---|---|---|---|---|
| Process module (`grass/process.c`, `procsys.c`) | process table, run queues by MLFQ level, free list, three mailboxes per process, alarms, two counters | create, send, receive with timeout, RPC, exit, kill one or all, clock and I/O interrupts, shut down, yield | device handlers run on the stack of whatever process polls, even of one that waits or is dead; processes die while they wait, run, or are queued; timeouts against messages | the table agrees with its queues and counters; a process waits only for what can still come; replies go to the RPC they answer; a shutdown ends |
| Virtual memory (`process.c` 751-860, `earth/tlb.c`, `copy_user`) | page tables, frames, TLB, address space | page fault, map, write back, flush, copy in and out | a page fault blocks while others fault; the address space of one Unix process is shared | a process finds its own memory; a frame has one owner |
| Machine monitor (`earth/intr.c`, `clock.c`) | event queue, devices, timer | deliver an interrupt, suspend | what ends a `poll` | |
| Terminal server (`grass/ttysvr.c`, `earth/devtty.c`) | line being typed, finished lines, read requests, echo | deliver characters, read, write, stat, flags | handler and server share three queues; `<ctrl>C` may kill the process under the handler | typed characters reach readers unchanged and in order |
| Disk server (`grass/disksvr.c`, `earth/devdisk.c`) | outstanding requests | read, write, completion events | answers by pid, out of events | the answer is to the request |
| Spawn and gate servers | executables of processes | exec, kill, shut down; host files | | |
| Caching layers (`block/clockdisk.c`, `wtclockdisk.c`) | cached blocks, use/recent/dirty bits, the hand | read, write, setsize, sync | failures of the disk, a crash with dirty blocks | shows the last write, forgets only what was not synced |
| Small layers (`raid0`, `raid1`, `map`, `part`, `combine`, `prot`, `check`, `stat`, `debug`, `ram`, `file`) | broken flags, offsets, blocks seen | the block store's | translation of offsets, partial failure of a mirror | each stack is a block store; mirrors are equal |
| File systems on blocks (`treedisk.c`, `unixdisk.c`) and a checker (`treedisk_chk.c`) | superblock, inodes, indirect blocks, free list, all on disk | create, read, write, setsize | several writes per call; stops in between; store full | returns what was written; a block is in one place |
| Block server (`apps/blocksvr.c`) | a stack of layers | one request at a time | | |
| Block file server (`apps/bfs.c`) | cached file control blocks; inode 0 | create, delete, read, write, setsize, stat, chown, chmod, sync | several block requests for one request, failures in the middle, restart | the cache is what a restart finds; reads return what was written; an answer for everyone |
| RAM file server (`grass/ramfilesvr.c`) | table of files in memory | the same | | |
| Directory server (`apps/dirsvr.c`) with `fopen`, `remove`, `mkdir` | files of entries | lookup, insert, remove | a page at a time while programs change files; calls that are several requests to two servers | a set of names; entries are of files that exist |
| Streams (`lib/stdio.c`, `unistd.c`) | descriptors, counted references, buffers, positions | fopen, read, gets, write, seek, flush, setvbuf, close, dup, exit | buffering in both directions, sharing, other programs | what was written is where the program thinks it is |
| Threads (`apps/mt.c`) and queues (`lib/queue.c`) | run queue, semaphores, zombie | create, yield, exit, inc, dec | wakeups, counts by hand, ends of tests | no thread is lost |
| init, login, shell, passwd, password and sync servers | files installed, password file, jobs, events | boot, prompt, run, wait, change a password | stops at any point, killed programs, stale events | a complete system or none; every prompt comes back |
| Other libraries and programs | | | | |

How they interact. A process calls another with `sys_rpc()`: a request message
into the mailbox of a server and a wait for the one reply. Kernel servers get
their devices' results in handlers that `earth.intr.suspend()` calls, inside
`proc_yield()` of any process; those handlers answer with `proc_send()`. The
terminal handler also kills (`<ctrl>C`) and shuts down (`<ctrl>Q`). The root file
system is on the block file server, which calls the block server, whose stack is
`protdisk` (an RPC to the disk server), `clockdisk` with 20 blocks, `treedisk`;
`/tmp.dir` is on the RAM file server. The directory server keeps directories in
files of either. Programs reach files through streams, whose calls are requests to
the directory and file servers. The sync server asks for a sync every 30 seconds.
The kernel is not preemptive; user processes are, by the clock. The RAID, mapping,
partition and checking layers are offered by `block_store.h` and not in the stack of
the running system.

## Modules

| Module | What it is |
|---|---|
| `Kernel` | the process module |
| `KernelProofs` | theorems about `Kernel`: types and waiting; run queues, counters, replies, shutdown |
| `Paging`, `PagingProofs` | page faults, frames, the TLB and copies between user and kernel; theorems |
| `BlockStore` | the abstract specification of a block store (`h/egos/block_store.h`) |
| `ClockDisk`, `ClockDiskProofs` | both caching layers over a disk; theorems, among them that they implement `BlockStore` |
| `Layers` | the small layers in stacks of up to four, over stores of four kinds; `IsBlockStore` in `MCLayers` is the refinement |
| `TreeDisk`, `UnixDisk` | the two file systems on a word-addressed disk: what a call writes, as operators; `TreeDisk!Check` is the checker |
| `FileSystems` | either of them, its writes done one by one, and stops |
| `FileServer`, `FileServerProofs` | the block file server over the block server, its clients, restarts; theorems |
| `RamFiles` | the RAM file server's requests, as operators |
| `NameSpace` | what a directory server promises, abstractly |
| `Directories` | the directory server and calls of programs over `RamFiles`; `RefinesNameSpace` is the refinement |
| `Streams`, `StreamsProofs` | streams and descriptors of programs over `RamFiles`; theorems |
| `Queue` | `lib/queue.c`, with its pointers |
| `Threads`, `ThreadsProofs` | threads and semaphores over `Queue`, and the tests of `main()`; theorems |
| `TtyServer`, `TtyServerProofs` | the terminal server and its readers; theorems |
| `Sessions`, `SessionsProofs` | init, login, shell, passwd, the password and sync servers; theorems |
| `MC...` | instances for TLC |

Two modules are shared: `BlockStore` is what `ClockDisk` and `Layers` are compared
with, and `RamFiles` is extended by `Streams` and `Directories`, which interleave its
requests with those of other programs. `FileSystems` instantiates both file systems,
`Threads` extends `Queue`. Where a component uses another of which a promise has been
checked, it uses the promise: `FileServer` takes the blocks of an inode for what
`FileSystems` shows them to be, `Sessions` takes a call of the file server for one
step. Type invariants that no configuration lists (of the modules other than
`Kernel`) hold in the same runs; those of `ClockDisk`, `Paging`, `TtyServer`,
`Sessions`, `Threads` and `FileServer` are theorems, or parts of one.

### Kernel

`k` is the process table with its queues: one record, since the C functions call
each other and each is an operator from a table to a table (`Send`, `Wakeup`,
`Term`, `Zap`, `Release`, ... have the names of `proc_send`, `proc_wakeup`, ...).
`ctl` says where the processor is: executing the current process (`run`), in
`earth.intr.suspend()` (`suspend`), in a loop that kills (`zap`), taking
processes off the run queues (`pick`), or switched off (`halt`). These are the
points of `proc_yield()` and `proc_kill()` between which something else can
happen or a loop goes round; everything else in the kernel is one step.
`recv[s]` is the part of a process' kernel stack that matters: it is inside
`proc_recv()` for that mailbox and has not returned.

While `ctl` is `suspend`, `DeviceReply`, `KillAll` and `Shutdown` may happen on
behalf of a handler, and `SuspendReturns` picks any set of the armed alarms as
the ones that have expired (time is abstracted to this choice). Message contents
are abstracted to the pid of the sender. A user process is a `daemon` or, if it
has set `interruptable`, a `job`; servers of the kernel are `kernel`, and only
they may create, kill and shut down, on behalf of any process (the spawn
server's requests). Timeouts, pids that no longer exist, permission to kill,
exhausted slots and self-RPC follow the early returns.

Differences from the code, none of which the properties can tell: what
`proc_alloc()` clears is cleared in `Release`; `proc_create_uid` failing and
sends that fail are stutters; fields never read after a death stay as they are
and are dropped by the view of `MCKernel`.

### Paging

All processes see the pages of one Unix process, so `virt` is one array: what is in a
page that has a TLB entry is written back to its frame at traps, when the entry goes
and when the processor changes hands, and otherwise the frame is what counts. `todo`
is what the kernel has still to do for a process before it is in user mode again
(fault a page in, wait for the executable to be read, copy in, copy out, exit); a
process may lose the CPU where it waits. `proc_term` is `Term`, with the unmapping of
pages by number, whoever they belong to. The scheduler and messages are abstracted to
which process runs next and when a wait ends: they are `Kernel`. `mem` is the history
of what each process should find. `halted` says why the kernel stopped: out of frames
(a panic in the code), an executable that cannot be read, or a fault of its own.

### BlockStore and ClockDisk

In `BlockStore` a call is answered at once, blocks become permanent at any time,
a successful `sync` means that they have, a crash brings back what was
permanent, and a fault of the hardware may lose what was not.

In `ClockDisk` a call is split at each access to the disk, because the machine
may stop there: `op` is what remains of it (`evict`, `fill`, `through`, `sync` at
a slot). `wt` chooses between the two layers. Every disk access may fail, at most
`MaxFaults` times. `content` of the abstract store is what the cache shows and
`stable` is the disk. Statistics and `getsize`/`getninodes`, which pass through,
are left out.

### Layers

`stack` names the layers from the top and `disks` the stores below the last. What a
layer makes of an offset is an operator (`PartDown`, `Raid0Down`, ...); `left` is the
places a call has still to go to, since raid1 goes on after a failure and raid0 syncs
every store. Sizes are worked out as the code does, also where that is odd
(`raid0disk_getsize` asks the first store only). A store "server" is the disk server
with its device: `Serve`, `Complete` and the completion event are steps of their own,
between which nothing else is asked of that store. checkdisk stops the program when it
reads something else than it saw last (`exited`).

### TreeDisk, UnixDisk and FileSystems

The disk is blocks of words, and what a word means (number of inode blocks,
reference, size, data) depends on how it is reached, as in `union treedisk_block`; a
wrong reference really damages something. The writes of a call are a function of the
disk when it begins (nobody else writes there) and are then done one at a time, so a
stop can fall between any two. `files` is the history of what the calls should have
stored. A write on a full tree ends in `panic()`, a stop after the writes already
done. `TreeDisk!Check` walks the disk as `treedisk_chk.c` does, and `CheckerAgrees`
compares its answer with what the users of the disk meet (`Sound`): reads of different
places of files come through different blocks (`Visited`), and allocations, repeated until
the list has ended, return others, each once (`Returned`). It is judged on the disks between
calls, those an interrupted call left behind included, and, if none was interrupted, on the
same disks with any one word changed to a value of `Damage`. The checker's last part, which
counts lost blocks, only reports them and is left out.

### FileServer

`job` is what the server has still to do for the request it handles: updates of its
cache, requests to the block server, the reply. Each is a step, and the machine may
stop between any two; then the server boots from inode 0. A step of the block server
may fail when the disk is full, and `setsize` as treedisk refuses it. `expect` is the
history of what is known of the contents of files; it forgets what a failed or
interrupted write leaves open.

### RamFiles, Directories and NameSpace

A request to the RAM file server is one step, because it asks nobody before it
answers. A directory is its file of entries, and the directory server reads and
writes pages of them. `Directories` has the programs' calls in the order of
`lib/stdio.c`: `fopen` looks up each part of the path, creates a file, inserts it and
truncates, `remove` deletes the file before the entry, `mkdir` creates, writes and inserts.
The answer to a request and the sending of the next one (`Send`) are two steps, between which
others run and send theirs, and a program may be killed (`Kill`); what it has sent is
carried out. `Homes` are the directories that the installation makes and gives to users
(`dir_install()`), so that there are programs that may write a file but not its directory.

The abstract `NameSpace` changes a set of triples in one step, at the write of the page;
`IsNameSpace` computes the set from the files. Two histories make exceptions explicit.
`parted` has the entries that have lost, or may have lost, their files to a program that
will not remove them; `EntriesAreFiles` exempts these. `gone` has the numbers of directories that were
deleted or emptied by programs: of those `NameSpace` promises nothing more (`Confuse`),
because the server may be in the middle of a request about one, and its number may be used
again. What programs write to files they have open is in `Streams` and not here; so a program
that writes to the file of a directory as to any other is outside.

### Streams

A program has descriptors, each a reference to a counted stream; `p[c].at` is where it
is in a call that needs several requests (`flush`, `fill`, `stat`). `log` has what
programs know they wrote, by offset, and `past` all that was ever in a place, so that
`LogIsFile` and `InputIsFile` can relate a buffer to what other programs do. Three
groups of programs bound the sharing: alone, with two streams and shared descriptors,
and a reader with a writer.

### Queue and Threads

A queue is its elements with their links, as in `lib/queue.c`, and not a sequence:
`ThreadsPlaced` needs the links to be right. A step is what the running thread does up
to the end of a call or a switch; threads switch only by calls. `main()` may yield
between creations. `thread_init()` leaves the status of the first thread as `malloc`
returned it, so Init chooses any. A process exits with 0 from `sema_dec` when its only
runnable thread blocks and with 1 from `thread_exit`. `test_producer1` and
`test_producer2`, which `main()` does not call, are left out.

### TtyServer

A character is its number in the order of typing, so that losing, moving and
inventing are visible. `entered` and `taken` are histories: what was finished by
newline or `<ctrl>D`, and what was given away in answers. `Deliver` to
`DeliverEnds` is one call of `tty_deliver()`, one step per character, during
which nothing else runs; after a `<ctrl>C` that kills the process on whose stack
it runs, the handler does not come back. Echo and output are left out.

### Sessions

A process runs from one call that others can notice to the next; calls of the servers
are single steps. `disk` and `stable` are what is there and what surely survives a
stop: after a stop unsynced changes may or may not be there. `/tmp.dir` is made anew
at every boot, so nothing is promised of it. Pids are chosen among those not in use.
The histories are exceptions made explicit: `torn` (a stop hit the password file),
`cut` (a stop hit the installation), `stuck` (passwd was killed without echo). `cd`,
macros, scripts, redirection, output and `kill` are left out; the install of one file
is a step. `Master` is the password that `pwdcmp()` accepts for everybody (`login.c` 79,
`pwdsvr.c` 51). It is one of those that can be typed, and a user may also choose it for his own.

## Runs

| Run | Instance | States | Shows |
|---|---|---|---|
| `kernel` | 3 slots, 4 pids, 1 level, jobs; a process sends when no message is queued | 2.55 M | the invariants of the process table, `RpcEnds`, `ShutdownDrains` |
| `kernel_live` | 2 slots, 2 levels, kernel servers and jobs, fairness | 99 k | a shutdown ends; quanta end |
| `clockdisk` | 2 slots, 2 inodes of up to 2 blocks, 2 contents, 1 fault | 441 k | `CacheInv`, `WriteThrough`, and both layers implement `BlockStore` |
| `file_systems` | tree: 2 references per block, 8 blocks; Unix-like: 5 words, 26 blocks, 1 direct reference, 5 calls; 2 files, 2 contents, 1 stop; 1 word damaged | 1.39 M | files keep their contents, blocks are in one place, the checker is right |
| `layers` | 10 stacks, 1 or 2 stores of 1 or 2 blocks, 1 fault | 369 k | `MirrorsAgree`, and every stack implements `BlockStore` |
| `paging` | 2 processes, 2 pages, 2 frames, 2 TLB entries | 1.81 M | `MemoryKept`, `FramesOwned` |
| `files` | 2 control blocks, blocks of 2 cells, files of up to 3, 2 clients, 1 fault, fairness | 386 k | `CacheIsSaved`, `ReadIsWritten`, `Answered` |
| `directories` | programs of 2 users, one of which may be killed, 5 calls, 4 file numbers, 2 entries per page, fairness | 618 k | the refinement of `NameSpace`, `RefusalsAreTrue`, `EntriesAreFiles`, `CallsReturn` |
| `streams` | 3 groups of programs, 3 files of up to 3 characters, buffers of 2 | 445 k | `CountsAgree`, `InputIsFile`, `LogIsFile` |
| `threads` | the tests of `main()` and four others, ring of 3, up to 7 threads | 182 k | `ThreadsPlaced`, `SharedIntact`, `TestsPass` |
| `tty` | 2 clients (one is a job), reads of 0, 1 and 4 characters, 4 characters typed | 215 k | `Stream`, `RequestOfWaiting`, `ReadersInOrder` |
| `sessions` | 5 entries to install, 2 passwords (one is the master's), 2 jobs, 2 shells, fairness | 415 k | `Installed`, `EchoRestored`, `PasswordKept`, `PromptsReturn` |

Every bound is a constant, or named where it is used:

* `MaxPid` ends process creation. Three processes are the least with a client, a
  server and one that is neither; with a fourth pid a slot is used again while the
  others still have references to the first process in it. Two levels are in
  `kernel_live`.
* `MaxMsgs` keeps a process from sending when that many messages are already in
  mailboxes. Events of dying processes and replies are not bounded, so mailboxes
  do get longer.
* `ClockInterrupt` does not count `ticks_left` below -1: the code compares it
  with 0 only. A quantum is 1 tick; longer ones only repeat a step that changes
  nothing else.
* Two cache slots are enough for the hand to pass one slot, to wrap, and to find
  all slots recent; two inodes for setsize and sync to have something to spare.
  The theorems cover every other size.
* With two references per block a tree of three blocks has two levels of indirect
  blocks, and eight blocks are used up by two such files, so the free list
  becomes empty, is rebuilt, and has full and partly filled blocks. The Unix-like
  instance reaches direct, single and double references; five calls bound it,
  because its free list can be in any order. `MaxStops` ends the calls once the
  machine has stopped that often.
* In `Layers` callers are sensible (`Sensible`): they write within the size and sync
  what exists; and mirrors are equal when the machine stops.
* Two pages and two frames make processes compete: one that has both faults the other
  out of memory. Two TLB entries for two pages let entries be replaced in turn.
* With blocks of two cells a text of two at offset one needs the old contents of two
  blocks. The array of control blocks is one block (see the differences below).
* `Damage` has block numbers of all kinds: 0, one of the inode blocks, a data block, one off
  the store. As a size they are none, one block, a tree of two levels, one of three.
* A page of two entries makes the third name start a page. `MaxCalls` bounds the calls of
  `fopen`, `remove` and `mkdir`; five are enough for two programs to create the same name at
  the same time, to remove it at the same time with the number used again in between, for a
  remover to be killed between its two requests or to be refused the second, and for a
  directory to be removed while the server is in the middle of it. Probes that deny these
  are all violated, and `EntriesAreFiles` without any one of the exceptions in `parted` is.
* A buffer of two characters fills with one text and half of another. No item
  ends in the middle of it (see the differences below). A file has at most one writer at
  a time (guards of `Open` and `Exit`): with two, what one wrote is the other's to overwrite.
* The groups of threads are those of `main()` and the least in which two consumers,
  two barbers or several producers compete; `NCalls` bounds free threads.
* Two pids of shells and of jobs are enough for an event of a process that ended
  before to be there when the next is waited for.

Deadlock is checked except where a system really may stop: in `file_systems` after
`MaxStops`, in `directories` after `MaxCalls`, in `layers` when checkdisk exits, in `paging` when the kernel has no frame
left, in `threads` when the process exits, in `sessions` when init fails. In
`TtyServer` and `ClockDisk` it is checked but cannot occur. In `Kernel` it is a check
of its own: an assertion that fails (a process on a run queue that is neither runnable
nor a zombie) is a state without successor.

`MCKernel` has a view that drops fields that nothing reads any more (what a zombie had
pending, ticks of processes that do not run); `kernel_live` does not use it.
`MCClockDisk` has one that drops the last result, and uses that the contents of blocks
are symmetric, `MCPaging` that processes are. `MCLayers` keeps the refinement mapping
in a variable so that it is computed once per state.

### Fairness

* `kernel_live` (`Fairness` in `Kernel`): the kernel goes on with its own path
  (`Resume`, `ZapStep`, `ZapDone`, and picking from the run queues are weakly fair, as
  the kernel is not preempted); `intr_suspend()` returns, even if handlers run in it
  each time: strong fairness, because it calls each ready device once and the timeout
  of `poll()` is finite (at most one second); the interval timer interrupts a process
  in user mode: weak fairness of `ClockInterrupt`. Nothing is assumed of processes,
  devices, users or alarms.
* `files`, `directories`: the servers, and in `directories` a program inside a call,
  go on (`WF`): they are processes that the scheduler runs and that wait for nothing
  but answers. Clients need not make calls, and kills are not fair.
* `threads`: the processor goes on with the running thread (in `Spec`, since a step of
  a thread is not preempted and there is no other).
* `sessions`: init, login, the shell, the password server and a passwd that has just
  been started go on; users need not type and jobs need not end.

## Proofs

The assumptions are those on the constants, in the modules that declare them: there is
a slot, a level, a superuser, an entry of the TLB, a control block in a block; the sizes
are natural numbers, and so are the lengths of texts; a
job is a client, descriptors fit their table, a text that is written is not empty, offsets of
seeks are not negative (as those of every caller in the repository), the streams that programs
begin with write to different files, the executable lies in the address space, the table of files
names each file once and after its directory, and a test of the barber makes one (all
tests of `mt.c` do). The proofs are for any number of slots,
levels, users, pids and messages, any size of cache, disk, block, memory, TLB and table
of files, any clients, any contents, and any tests of any number of threads.

None of the properties is inductive as it stands. The inductive invariant is `IInv` or
`Inv` (`QueueInv`, `PlacesInv`, `SharedInv` and `SavedInv` where a second one is needed;
`CountsInv` and `DataInv` for streams); the lemmas
of an operator say what it does to the parts of it, and the lemma about `Next` has one
step per action.

`KernelProofs`:

* `TypeCorrect`, `Spec => []TypeOK`. The work is in `SlotOrder` and `First`: every
  set of slots has an ascending enumeration (`AscendingExists`), so
  what `Wakeup` appends to the run queues consists of slots.
* `WaitingCorrect` and `ClientHasServerCorrect`, from `InvCorrect`. `IInv` adds
  `FreeOK` (the free list holds free slots, each once, and a free slot waits for
  nothing: so a new process does not inherit a wait) and `ControlInv` (in `run` the
  current process is runnable; a loop that kills meets only live slots). Inside
  `proc_term()` the invariant is broken on purpose, between the death of a server and
  the wake-up of its clients: `TableInv(t, X)` is the invariant of a table except for
  clients of the pids in `X`, `Send` and `Release` keep it, `Term` ends with `X` empty.
  Each C function has one lemma.
* `QueuedOnceCorrect`, `AccountingCorrect`, `ReplyCorrect` and the action property
  `RpcEndsCorrect`, from `QueueInv` on top of `IInv`. It adds that a process waiting for
  a reply has no alarm (`AlarmOK`: otherwise an old alarm would end an RPC), that pids
  are below `gen` and unique (`PidsOK`: otherwise a late reply could find another
  process), and that every free slot is on the free list. `QueuesOK(t, X)` is
  `QueuedOnce` except for the processes in `X`, which the kernel has in its hands: one
  that `proc_zap()` killed while it waited and has not released yet, one that has been
  taken off to be run. `Roused` is what all wake-ups have in common, and `Extends` that
  they append each process once, in whatever order.
* `ShutdownDrainsCorrect` needs one more part (`ShutdownOK`): in the loop that kills
  everybody the processes it has passed are dead, and when the kernel then picks from the
  run queues, all are.

`PagingProofs`:

* `MemoryKeptCorrect`, `FramesOwnedCorrect`, `IndexStillRightCorrect` and `TypeCorrect`,
  from `Inv == Types /\ TodoOK /\ FreshOK /\ Memory`. `Memory` says who owns frames and
  entries (`Owned`, `OneEntry`, `EntryOwned`) and where the last write to a page is
  (`Kept`: in the page, if an entry shows it; in the frame too, unless the entry is of
  the current process and writable; in the frame only, for everybody else), and that the
  entries are the current process' own once it has run (`OwnTlb`). There is an exception,
  and the proof shows it to be harmless: a page whose contents are still being read has
  a frame and no entry (`ReadUnmapped`). So what the lookup before `frame_init()` found
  still holds when that returns (`IndexStillRight`, which no run lists). `TodoOK` is what makes that page belong to the first step the
  kernel has left to do, `FreshOK` that a process which has not run owns nothing.
  `FramesOwned` counts frames, so the proof takes the free list and the page tables as
  two disjoint injective maps onto `Frame`.

`TtyServerProofs`:

* `StreamCorrect`: `Stream` is inductive with `TypeOK`, but it speaks of the
  concatenation of lines, which is a recursive function. `FlattenIs` and the lemmas after
  it say what that is after an append and without the first line, by induction on a set
  (below).
* `RequestOfWaitingCorrect`, from `RequestsOK`, which names the places of requests
  where the property counts them; and `ReadersInOrderCorrect`, an action property.

`SessionsProofs`:

* `InstalledCorrect`, `EchoRestoredCorrect` and the action property `PasswordKeptCorrect`,
  from `Inv`. Its parts are: until init is at its end nothing else runs (`Quiet`); what
  init has installed and synced at each of its steps (`Boot`); login has one shell, or
  one event of it (`OneShell`); the shell waits for the one job in the foreground and has
  no event of it (`Foreground`: a stale event would let a second passwd, or the prompt,
  share the terminal); a request that waits for the password server is the last one
  if its job is alive, and otherwise has a password that may be the one (`Pending`: a
  killed passwd leaves its request, which is carried out later); the line of the file is
  a password that may be the one (`FileOK`). `EchoRestored` is inductive with them.

`ThreadsProofs`:

* `ThreadsPlacedCorrect`, from `PlacesInv` and `TestInv` (`PlacesInvCorrect`), in four
  layers. A queue is a chain of distinct addresses (`Chained`): `AddressIs` shows that
  the recursive function that follows the links finds that chain, and `AddChained` and
  `RestChained` what `queue_add()` and `queue_get()` do to it, when the queue is empty or
  becomes so too. `Places(T, r, S, b, C)` is the property as a fact about threads, run
  queue, semaphores, the count of those blocked and a set `C` of threads that are in no
  queue because a call has them in hand; each assignment of `mt.c` moves one thread and
  has one lemma (`PlacesGet`, `PlacesBlock`, `PlacesFree`, ...). `Steady` adds that
  exactly the current thread is in hand, and that it is not blocked unless it is main's,
  whose status is what `malloc` left, before any other thread is made: `thread_yield()`
  would lose it otherwise. `YieldBlocked`, `YieldRuns`, `ExitIs`, `CreateIs`, `DecIs`,
  `IncIs` and `ReleaseAllIs` are the functions of the package. `Control` is about the
  tests: between two of them main's thread is alone, so `sema_init()` forgets nobody.
* `SharedIntactCorrect`, from `SharedInv` (`SharedInvCorrect`). A thread owns a semaphore
  from the decrement that lets it go on to the increment that pays for it, which for the
  slots is of the other semaphore and by another thread (`Owns`); a thread that is blocked
  owns nothing yet. The count of a semaphore and its owners (`Level`) make a number that
  only the steps on the shared state change: 1 for "lock" and "seats", `Len(ring)` for
  "full", `NSLOTS - Len(ring)` for "empty", and the seats taken for "waiting". So a
  producer at the ring finds a slot free and a consumer one filled (`PutShared`,
  `GetShared`), and a customer that sees no free seat is right (`SeatsShared`).
  `ThreadsPlaced` is needed in every step: a hand-over from one thread to the next leaves
  the number as it is only because the first in the queue is a thread and is in no other
  queue. From one test to the next, `EndIs`: those who are left are the producers or
  barbers the test expects, all blocked; not all of them wait for the lock, since the one
  who owns it would not be blocked on it (`AllWait`), so all wait for a slot or a customer: the
  ring is full and its ends meet, or every seat is free. For the seats this needs a
  barber.

`ClockDiskProofs`:

* `IInv == TypeOK /\ CacheInv /\ CallInv` is inductive. `CallInv` is what a call
  relies on after giving up control at the disk: the block it brings in is still
  in no other slot, its slot is empty, the write-through it is about to do is
  already in the cache, a sync has left nothing dirty behind.
* `TypeCorrect`, `CacheCorrect` and `WriteThroughCorrect` follow;
* `Refinement`: both layers implement `BlockStore`. `Evict` is a `Persist` or, when
  the write is lost, a `Fault`; `Fill` of a write is the abstract `Write`;
  `SyncSlot` is a `Persist`; `SyncBelow` is the `Sync`. It assumes that write-throughs
  do not fail and that nobody syncs inode -1, and neither can be dropped: a
  failed write-through leaves a clean block that differs from the disk, and a
  sync of -1 flushes nothing (below).

`FileServerProofs`:

* `ReadIsWrittenCorrect`, from `ReadInv` (`ReadInvCorrect`), without a condition on sizes,
  texts, clients or failures. `Known` says that what the history knows of a cell is in the
  block and place of the block where the cell belongs (`Holds`). A write forgets all that
  was known of its file, and the update at the end of the request knows it again: so the
  invariant has to say, while steps are left, what they will have done. `JobOK` is about
  the job as a sequence: no block is written twice in it, what a step writes is of the file
  that the update is about, and what the update will claim of a cell is in the block that a
  write before it puts there, or in the store if no write before it touches that block
  (`WillHold`, `UpdateOK`). `Steps` has one lemma per request that says its job is such a
  sequence; that of a write is the arithmetic of `blkfile_put()`, with its three cases of
  which blocks are read first. Every step of the server then takes the head from such a
  sequence. A write that fails drops the job, and what it had written is not claimed.
  The answer to a read is the only step of its job (`AnswerOK`), so nothing changes between
  reading and answering.
* `CacheIsSavedUnlessLonger`: `CacheIsSaved` while inode 0 has the length that
  `load_fcb_cache()` expects, for any number of control blocks. `SavedInv` says that every
  control block is in the array or in a block that the flush at the head of the job covers
  (`Covers`); `ArrayThere` in `ReadInv`, that the array is there, if need be longer, except
  while it is being made. `CacheIsSavedCorrect` is the corollary for an array of one block:
  there the flush writes no more than that, so the length stays.
* `TypeCorrect`.

`StreamsProofs`:

* `CountsAgreeCorrect`, from `CountsInv`. During `close()`, `fclose()` and `dup2()` the count,
  the descriptors and the stream disagree with what follows on purpose, so the invariant says
  for each place of a call what may be missing: a descriptor that is being closed is still its
  stream's (`Closing`); a stream that has lost its last descriptor is only waiting to be freed
  (`LastClosed`); and `dup2()`, which closes one descriptor before it assigns it, still finds
  the other's stream there, because another descriptor holds it (`Assignable`). The cardinality
  of the holders is followed through an assignment and a close (`HeldOpened`, `HeldClosed`).
* `LogIsFileCorrect` and `InputIsFileCorrect`, from `DataInv`, for any programs, files, texts,
  sizes of buffers and modes. `StreamInv` says of one stream what its state is worth: the file
  with what is buffered and what is left of the call put at the position of the stream has what
  the program was told it wrote there (`Matches`, `Written`), and the end of that text is where
  the program thinks it is, except between `fseek()` and `ftell()` (`telling`). It has one lemma
  per change of a stream: `StreamFlushed` is that putting one text after another is putting both
  (`PutTwice`), `StreamFits` that `fwrite()` cuts the rest where the buffer ends, `StreamMoved`
  that a seek loses only what is in the file. What remains known of a file when its writer
  closes it or ends is in the file: that, and that a file has at most one writer
  (`OneWriter`), lets the next writer begin with a file that agrees. A step of one program keeps
  what the others know (`ProgFrame`): only the writer of a file changes it, and what was read
  ahead of a file was in it at some time (`past`), which stays true.
  `InputIsFile` is proved if no item that is read has several characters unless it is read alone
  (`Simple`): so do `read()` (`unistd.c` 188) and the directory scan (308); without it the
  property is false (below).

The induction theorems of the library take an operator as a parameter, which the provers
at hand cannot instantiate. `SetInduction` is induction for a set, from
the well-foundedness of the natural numbers, and does what the proofs above need. Lemmas on numbers and sequences
that several modules of proofs need are repeated in them.

Only model-checked: `FilesIntact`, `BlocksAccounted`, `CheckerAgrees` (file systems),
`MirrorsAgree` and `IsBlockStore` (small layers), `RefusalsAreTrue`, `EntriesAreFiles`, `RefinesNameSpace` (directories). Liveness (`ShutdownCompletes`, `QuantumEnds`, `Answered`, `CallsReturn`,
`TestsPass`, `PromptsReturn`) is out of the prover's reach. The properties of the
file systems are about recursive functions on the disk, and each would need an induction
over trees that a call changes in the middle; that has not been done. `CacheIsSaved` and `InputIsFile` are
false in general (below); each is proved under the condition it needs. `LogIsFile`
holds within `MaxSize` only, beyond which the history does not reach. In `Directories` a
number that is used again is told from the file that had it by the order of requests of
several programs; no inductive invariant for that has been found.

## Differences between code and text

What the code does and a comment or a document says otherwise, or what a bound or a
history variable above excludes. Each was seen as a behaviour of the model.

* `process.c` 879: `ticks_left` is compared with 0 and refilled only by a context
  switch (684-700). A process that used up its quantum while it was alone goes on
  below 0 and is never preempted again, although every level has a quantum (48).
  `QuantumEnds` speaks of processes that have ticks left.
* `procsys.c` 102-117: a process preempted between writing the arguments of a system
  call and the trap has their page mapped for reading when they are copied in; the
  result is stored there without another fault, and the kernel itself faults.
* `clockdisk.c` 181: `clockdisk_sync()` takes `(unsigned int) -1` for the number of an
  inode, against `block_store.h` 38; it flushes nothing and returns 0. raid0 passes -1
  down, and `combinedisk_sync()` finds no store for it. (The block server's own stack is
  not hit: `treedisk_sync` passes inode 0.)
* `clockdisk.c` 138, `wtclockdisk.c`: a hit does not set the recent bit, so the
  replacement is FIFO and not the CLOCK "approximating LRU" of `clockdisk.c` 4.
* `ttysvr.c` 150: `tty_deliver()` answers one request whatever the number of lines and
  readers, against its comment (94-95): with two lines and two readers a line stays in
  the server while a reader waits for it.
* `treedisk.c` 231, 424: `treedisk_write()` writes the inode before it allocates the
  block, and `treedisk_free_file()` frees a root that is a hole. After a stop in between
  and a setsize, block 0, the superblock, is filled with zeros ("the block index 0 is
  used for holes", `treedisk.h` 24).
* `unixdisk.c`: `unixdisk_create()` does not end when the number of data blocks is a
  multiple of what a free block holds and itself (128); a popfree on an empty list
  answers -1, which callers use as a block; the code for triple indirect blocks reads
  the double indirect one (481, 628); a file is freed before its inode is emptied.
* `raid1disk.c`: a store is marked broken only in memory, so after a restart it is read
  again with what it had; a write or sync beyond the end marks every store broken.
  `raid0disk_getsize` asks the first store only (35). `protdisk_setsize` only asserts.
* `bfs.c` 584-594: `flush_fcb_cache()` starts at the block of the array that holds the
  file, and passes the number of its last block plus one as the number of blocks to
  write: for files past the first block of the array it writes past the array, inode 0
  grows, and a restart takes it for an array of another size and installs an empty one
  (in an instance with two blocks TLC finds `CacheIsSaved` violated; with the 256 inodes of `blocksvr.c` 16 and control blocks of 40
  bytes, a change of file 128 or a later one does it). `setsize` to a size other than 0
  fails in treedisk and is answered twice (553-563); delete and create leave the size of
  the file that had the number; the sync of one file fails, as the block server takes -1
  only; failures of a flush are ignored.
* `treedisk_chk.c` 171-173: a reference of a free-list block that is off the store is passed
  over, and the disk accepted; `treedisk_alloc_block()` (`treedisk.c` 100-144) returns it. `Sound` passes over it
  too. An off-store link to the next block of the list is refused (as is such a block of a file).
* `dirsvr.c` 84: "assert(n % DIR_ENTRY_SIZE == 0)" ends the server when a program has
  written something shorter to a directory file, which its permissions allow (outside the
  model). Of two creators of a name each may create a file: the one whose insertion is refused
  leaves its file without an entry.
* `stdio.c` 622-633: `remove()` ignores whether the file could be deleted and deletes by the
  number that it looked up. Of two removers of one name the later may delete another file,
  which was created with the number the first one freed, and that file's entry stays. A
  program that may write the file but not the directory, as the owner of a home directory
  may, or that is killed between the two requests, leaves the entry without a file for good.
  `parted` records these, and nothing else parts an entry from its file.
* `dirsvr.c` 102-191: the server relies on the file of the directory between two pages. If a
  program deletes the directory meanwhile and the number is used again, an insertion goes to
  the place it had found free in the old one: it may overwrite an entry of another directory,
  or put an entry into an ordinary file. `fopen()` for writing truncates by the number that it
  looked up (`Truncate`), so it may empty a directory that has got that number since; the
  server then writes past the end, and what is before it is memory that nobody has written
  (`ramfilesvr.c` 146-160: "Should zero-fill if creating a hole"). `gone` records these.
* `login.c` 79, `pwdsvr.c` 51: one password is accepted for every user, whatever is in the
  password file. `PasswordKept` says who is not refused, and nothing says who must be.
* `stdio.c`: a seek to the end asks for the size before it flushes; end of file is
  sticky; `setvbuf` drops what is buffered; flags of the stream are not checked against
  the operation; append opens at the end and then writes at its own position (`stdio.h`
  says all writes go to the end); `exit` does not flush. `fread()` counts what is buffered
  (255) before it returns items and moves as much to the front after (282): with items of
  more than one byte of which a part is left, bytes behind the input are taken for input
  (with buffers of three and two items of two TLC finds `InputIsFile` violated). A stream
  open for both ("w+", "r+") keeps what it had read ahead after it has written there itself, so it
  reads the old text again. `InputIsFile` speaks of streams that are open to read only.
* `init.c` 256: the file system is installed if file 1 exists, which is so after the
  first step; a stop later leaves it partial.
* `pwdsvr.c` 172: the file is truncated before it is written; a stop there, when the
  truncation was synced, leaves no passwords.
* `login.c` 45-56: when the shell cannot be started, login waits for a pid that was
  never set.

## Not modelled

* The gate server, log, network and memory of `earth`: Unix I/O, one call each, without
  state that the kernel depends on. Signal delivery in `earth/intr.c` appears as the
  actions it causes in the kernel.
* Memory allocators: `tlsf` is third-party, `malloc.c` and `myalloc.c` are not compiled
  in. `map.c`, `string.c`, formatting and the other library files are functions on their
  arguments.
* `fatdisk.c` is unfinished: its write follows a pointer of a snapshot it has not read
  yet. `cipherdisk.c` transforms the bytes of a block.
* `elf.h`, the converters, `ar`, `ed`, `mkfs`, `cc` and other programs and tools:
  sequential, or used to build the system.
* Of what is modelled: output, parsing and formatting; statistics and logging;
  allocation failures; the weighted averages of `HW_MEASURE`; the layout of arguments
  on a new stack; undefined behaviour after a failed read (`treedisk_setsize()`); stops
  in the middle of pulling one file in an installation.

The share of lines covered is bounded by this list: the files in it are more than half of
the repository's C.

## Plan

The order is by what the rest of the system depends on. Modelled: `Kernel`, `Paging`,
`BlockStore`, `ClockDisk`, `Layers`, `TreeDisk`, `UnixDisk`, `FileSystems`,
`FileServer`, `RamFiles`, `NameSpace`, `Directories`, `Streams`, `Queue`, `Threads`,
`TtyServer`, `Sessions`. Proved: `Kernel`, `ClockDisk`, `Paging`, `TtyServer`,
`Sessions`, `Threads`, `FileServer`, `Streams`. What is left is to prove more:

* `EntriesAreFiles` and the refinement of `NameSpace`;
* `MirrorsAgree`, and that stacks of one layer implement `BlockStore`.

One composition is still open: `ClockDisk` under `TreeDisk`, for the order in which an
evicting cache writes the blocks of a call, which is not the order `FileSystems`
assumes.
