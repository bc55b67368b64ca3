------------------------------- MODULE Kernel -------------------------------
(***************************************************************************)
(* The process module of the Grass kernel (src/grass/process.c and the     *)
(* system calls of src/grass/procsys.c): the process table, the multilevel *)
(* run queues, message passing and RPC, timeouts, killing, shutting down.  *)
(*                                                                         *)
(* There is one processor and the kernel is not preemptive, so a handler   *)
(* runs to completion until it gives up the CPU in proc_yield().  The      *)
(* table is one record k; each C function that changes it is an operator   *)
(* from a table to a table, and a handler is their composition.  proc_yield*)
(* is split at the points where something else can happen and where it     *)
(* loops: ctl says where the CPU is.                                       *)
(*                                                                         *)
(*   "run"      the current process executes                               *)
(*   "suspend"  in earth.intr.suspend(): device handlers may run, on the   *)
(*              kernel stack of the current process, whatever its state    *)
(*   "zap"      in a loop over the table that kills the processes todo:    *)
(*              that of proc_kill(killer, 0), or of proc_yield() when the  *)
(*              kernel is shutting down                                    *)
(*   "pick"     taking processes off the run queues                        *)
(*   "halt"     the machine has been switched off                          *)
(*                                                                         *)
(* Abstracted: message contents (a message is the pid of its source), the  *)
(* clock (an armed alarm may have expired or not each time it is looked    *)
(* at), memory and statistics.                                             *)
(***************************************************************************)
EXTENDS Integers, Sequences, FiniteSets

CONSTANTS
  MaxProcs,   \* MAX_PROCS, the slots of the process table
  Levels,     \* MLFQ_LEVELS
  Quantum,    \* quantums[], clock ticks per level
  Uids,       \* user ids; 0 is the superuser
  Kinds,      \* kinds of process that are created
  MaxPid,     \* bound: pids handed out before process creation stops
  MaxMsgs     \* bound: messages queued in the mailboxes when a process sends one

Slot    == 1..MaxProcs
Level   == 0..(Levels - 1)
MsgType == {"request", "reply", "event"}
Kind    == {"kernel", "daemon", "job"}   \* kernel server, user process, user
                                         \* process that dies on <ctrl>C
NoPid   == 0
NoMsgs  == [t \in MsgType |-> <<>>]

ASSUME SlotAssumption  == MaxProcs \in Nat \ {0}
ASSUME LevelAssumption == Levels \in Nat \ {0}
ASSUME QuantumAssumption == Quantum \in [Level -> Nat \ {0}]
ASSUME UidAssumption   == 0 \in Uids
ASSUME KindAssumption  == Kinds \subseteq Kind
ASSUME BoundAssumption == MaxPid \in Nat \ {0} /\ MaxMsgs \in Nat

VARIABLES
  k,          \* the process table and its queues
  ctl,        \* where the CPU is
  shutting    \* proc_shutting_down

vars == <<k, ctl, shutting>>

Table == [
  state:   [Slot -> {"free", "runnable", "waiting", "zombie"}],
  pid:     [Slot -> Nat],
  uid:     [Slot -> Uids],
  owner:   [Slot -> Nat],
  kind:    [Slot -> Kind],
  level:   [Slot -> Level],
  ticks:   [Slot -> Int],
  waiting: [Slot -> SUBSET MsgType],             \* mboxes[].waiting
  msgs:    [Slot -> [MsgType -> Seq(Nat)]],      \* mboxes[].messages
  server:  [Slot -> Nat],
  alarm:   SUBSET Slot,                          \* alarm_set
  recv:    [Slot -> MsgType \cup {"none"}],      \* inside proc_recv() for ...
  runq:    [Level -> Seq(Slot)],
  free:    Seq(Slot),
  nprocs:  Int,
  nrunnable: Int,
  gen:     Nat,                                  \* pid_gen
  current: Slot ]

Control ==
       [at: {"run", "suspend", "pick", "halt"}]
  \cup [at: {"zap"}, todo: SUBSET Slot, uid: Uids, then: {"run", "suspend", "pick"}]

Run     == [at |-> "run"]
Suspend == [at |-> "suspend"]
Pick    == [at |-> "pick"]
Halt    == [at |-> "halt"]

-----------------------------------------------------------------------------
(* The functions of process.c on the table.                                *)

Live(t) == {s \in Slot : t.state[s] # "free"}

\* proc_find: the slot of a process that is not free, or 0.
Find(t, p) ==
  LET S == {s \in Live(t) : t.pid[s] = p}
  IN  IF S = {} THEN 0 ELSE CHOOSE s \in S : \A r \in S : s <= r

ToRunQueue(t, s) == [t EXCEPT !.runq[t.level[s]] = Append(@, s)]

\* The slots of S in the order in which a loop over proc_set meets them.
SlotOrder(S) ==
  CHOOSE q \in [1..Cardinality(S) -> S] :
    \A i, j \in 1..Cardinality(S) : i < j => q[i] < q[j]

Alloc(t, owner, u, kind) ==
  LET s == Head(t.free)
  IN  [t EXCEPT !.free = Tail(@),
                !.state[s] = "runnable", !.pid[s] = t.gen, !.uid[s] = u,
                !.owner[s] = owner, !.kind[s] = kind,
                !.level[s] = 0, !.ticks[s] = Quantum[0],
                !.gen = @ + 1, !.nprocs = @ + 1, !.nrunnable = @ + 1]

\* What proc_alloc's memset leaves in a slot is put there already when the slot
\* is released: nothing looks at a free slot in between.
Release(t, s) ==
  [t EXCEPT !.state[s] = "free", !.msgs[s] = NoMsgs, !.waiting[s] = {},
            !.pid[s] = NoPid, !.uid[s] = 0, !.owner[s] = NoPid,
            !.kind[s] = "kernel", !.level[s] = 0, !.ticks[s] = 0,
            !.server[s] = NoPid, !.alarm = @ \ {s}, !.recv[s] = "none",
            !.nprocs = @ - 1, !.free = Append(@, s)]

\* Mutant of CanSend: any process may answer a process that waits for a reply.
AnyoneReplies(t, src, p, type) ==
  LET d == Find(t, p)
  IN  /\ d # 0
      /\ t.state[d] # "zombie"
      /\ type = "reply" => t.state[d] = "waiting" /\ "reply" \in t.waiting[d]

\* The early returns of proc_send.
CanSend(t, src, p, type) ==
  LET d == Find(t, p)
  IN  /\ d # 0
      /\ t.state[d] # "zombie"
      /\ type = "reply" => /\ t.state[d] = "waiting"
                           /\ "reply" \in t.waiting[d]
                           /\ t.server[d] = src

\* Mutants of Send: the alarm of a timed receive is left set when a message ends it;
\* a process woken while it polls in suspend() is put on the run queue.
SendLeavesAlarm(t, src, p, type) ==
  LET d == Find(t, p)
      q == [t EXCEPT !.msgs[d][type] = Append(@, src)]
      w == [q EXCEPT !.state[d] = "runnable", !.nrunnable = @ + 1,
                     !.waiting[d] = @ \ {type}]
  IN  IF ~CanSend(t, src, p, type)    THEN t
      ELSE IF type \notin t.waiting[d] THEN q
      ELSE IF d = t.current THEN w ELSE ToRunQueue(w, d)

SendQueuesCurrent(t, src, p, type) ==
  LET d == Find(t, p)
      q == [t EXCEPT !.msgs[d][type] = Append(@, src)]
      w == [q EXCEPT !.state[d] = "runnable", !.nrunnable = @ + 1,
                     !.alarm = @ \ {d}, !.waiting[d] = @ \ {type}]
  IN  IF ~CanSend(t, src, p, type)    THEN t
      ELSE IF type \notin t.waiting[d] THEN q ELSE ToRunQueue(w, d)

Send(t, src, p, type) ==
  LET d == Find(t, p)
      q == [t EXCEPT !.msgs[d][type] = Append(@, src)]
      w == [q EXCEPT !.state[d] = "runnable", !.nrunnable = @ + 1,
                     !.alarm = @ \ {d}, !.waiting[d] = @ \ {type}]
      b == [w EXCEPT !.level[d] = IF @ > 0 THEN @ - 1 ELSE @]
  IN  IF ~CanSend(t, src, p, type)    THEN t
      ELSE IF type \notin t.waiting[d] THEN q
      ELSE IF d = t.current            THEN w
      ELSE ToRunQueue(b, d)

\* Mutant of Wakeup: the mailboxes of the process stay marked as waiting.
WakeupLeavesWaiting(t, C) ==
  [t EXCEPT !.state     = [s \in Slot |-> IF s \in C THEN "runnable" ELSE @[s]],
            !.alarm     = @ \ C,
            !.nrunnable = @ + Cardinality(C),
            !.runq      = [l \in Level |-> @[l] \o
                 SlotOrder({s \in C \ {t.current} : t.level[s] = l})]]

\* proc_wakeup on each of the waiting processes C, in slot order.
Wakeup(t, C) ==
  [t EXCEPT !.state     = [s \in Slot |-> IF s \in C THEN "runnable" ELSE @[s]],
            !.alarm     = @ \ C,
            !.waiting   = [s \in Slot |-> IF s \in C THEN {} ELSE @[s]],
            !.nrunnable = @ + Cardinality(C),
            !.runq      = [l \in Level |-> @[l] \o
                 SlotOrder({s \in C \ {t.current} : t.level[s] = l})]]

\* The processes in an RPC to process p.
Clients(t, p) ==
  {c \in Slot : t.state[c] = "waiting" /\ "reply" \in t.waiting[c] /\ t.server[c] = p}

\* Mutants of Term: the RPCs of the clients are not failed; the counter of runnable
\* processes goes down whatever the state of the one that dies.
TermForgetsClients(t, s) ==
  LET z == [t EXCEPT !.state[s] = "zombie",
                     !.nrunnable = IF t.state[s] = "runnable" THEN @ - 1 ELSE @]
  IN  IF t.state[s] = "zombie" THEN t ELSE Send(z, t.pid[s], t.owner[s], "event")

TermMiscounts(t, s) ==
  LET z == [t EXCEPT !.state[s] = "zombie", !.nrunnable = @ - 1]
      n == Send(z, t.pid[s], t.owner[s], "event")
  IN  IF t.state[s] = "zombie" THEN t ELSE Wakeup(n, Clients(n, t.pid[s]))

\* proc_term: tell the owner, fail the RPCs of the clients.
Term(t, s) ==
  LET z == [t EXCEPT !.state[s] = "zombie",
                     !.nrunnable = IF t.state[s] = "runnable" THEN @ - 1 ELSE @]
      n == Send(z, t.pid[s], t.owner[s], "event")
  IN  IF t.state[s] = "zombie" THEN t ELSE Wakeup(n, Clients(n, t.pid[s]))

\* proc_zap; u is the uid of the killer, 0 as well when the kernel itself kills.
Zap(t, u, s) ==
  IF u # 0 /\ u # t.uid[s] THEN t
  ELSE IF t.state[s] = "waiting" /\ s # t.current THEN Release(Term(t, s), s)
  ELSE Term(t, s)

\* proc_recv up to the point where it blocks or returns.
Receive(t, type, timed) ==
  LET c == t.current
  IN  IF t.msgs[c][type] # <<>>
      THEN [t EXCEPT !.msgs[c][type] = Tail(@)]
      ELSE [t EXCEPT !.state[c] = "waiting", !.waiting[c] = @ \cup {type},
                     !.nrunnable = @ - 1, !.recv[c] = type,
                     !.alarm = IF timed THEN @ \cup {c} ELSE @]

-----------------------------------------------------------------------------
(* The current process executes.                                           *)

Running == ctl.at = "run" /\ k.recv[k.current] = "none"
RoomToSend ==
  MaxMsgs > Cardinality(UNION {{<<s, type, j>> : j \in 1..Len(k.msgs[s][type])} :
                                  s \in Slot, type \in MsgType})
InKernelServer == Running /\ k.kind[k.current] = "kernel"
InUserMode     == Running /\ k.kind[k.current] # "kernel"

\* Where the CPU is after a call that blocks when the current process does.
AfterReceive(t) == IF t.state[t.current] = "waiting" THEN Suspend ELSE Run

\* sys_recv; timed: max_time is not 0.
Recv(type, timed) ==
  /\ Running
  /\ k' = Receive(k, type, timed)
  /\ ctl' = AfterReceive(k')
  /\ UNCHANGED shutting

\* sys_rpc.  The calls that fail at once change nothing.
Rpc(p) ==
  LET c == k.current
      s == Send(k, k.pid[c], p, "request")
  IN  /\ Running
      /\ p # k.pid[c]
      /\ CanSend(k, k.pid[c], p, "request")
      /\ RoomToSend
      /\ k' = Receive([s EXCEPT !.server[c] = p], "reply", FALSE)
      /\ ctl' = AfterReceive(k')
      /\ UNCHANGED shutting

\* The end of proc_recv, once the process has been switched to again.
Resume ==
  LET c == k.current
      type == k.recv[c]
  IN  /\ ctl.at = "run" /\ type # "none"
      /\ k' = [k EXCEPT !.recv[c] = "none",
                        !.msgs[c][type] = IF @ = <<>> THEN @ ELSE Tail(@)]
      /\ UNCHANGED <<ctl, shutting>>

\* sys_send of a reply or an event.
SendMsg(p, type) ==
  /\ Running
  /\ CanSend(k, k.pid[k.current], p, type)
  /\ RoomToSend
  /\ k' = Send(k, k.pid[k.current], p, type)
  /\ UNCHANGED <<ctl, shutting>>

\* sys_exit, and proc_pagefault on an illegal address.
Exit ==
  /\ Running
  /\ k' = Term(k, k.current)
  /\ ctl' = Suspend
  /\ UNCHANGED shutting

\* proc_create_uid with the process in slot f as owner: the new process starts
\* at once, and a user process sets its interruptable flag (user_proc).
Create(f, u, kind) ==
  /\ InKernelServer
  /\ ~shutting
  /\ f \in Live(k)
  /\ k.free # <<>> /\ k.gen <= MaxPid
  /\ k' = [ToRunQueue(Alloc(k, k.pid[f], IF k.uid[f] # 0 THEN k.uid[f] ELSE u, kind),
                      k.current)
             EXCEPT !.current = Head(k.free)]
  /\ UNCHANGED <<ctl, shutting>>

\* proc_kill of one process, by the spawn server for the client in slot f.
Kill(f, s) ==
  /\ InKernelServer
  /\ f \in Live(k) /\ s \in Live(k)
  /\ k' = Zap(k, k.uid[f], s)
  /\ ctl' = IF k'.state[s] = "zombie" THEN Suspend ELSE Run
  /\ UNCHANGED shutting

Jobs == {s \in Live(k) : k.kind[s] = "job"}

\* proc_kill of all jobs: a client's request, or <ctrl>C seen by tty_deliver.
KillAll(f) ==
  /\ InKernelServer \/ (ctl.at = "suspend" /\ k.kind[f] = "kernel")
  /\ f \in Live(k) /\ Jobs # {}
  /\ ctl' = [at |-> "zap", todo |-> Jobs, uid |-> k.uid[f], then |-> ctl.at]
  /\ UNCHANGED <<k, shutting>>

\* One turn of a loop that kills; proc_kill gives up the CPU after it when the
\* current process is among the dead.
ZapStep ==
  /\ ctl.at = "zap"
  /\ \E s \in ctl.todo :
       /\ \A r \in ctl.todo : s <= r
       /\ k' = Zap(k, ctl.uid, s)
       /\ ctl' = [ctl EXCEPT !.todo = @ \ {s}]
  /\ UNCHANGED shutting

ZapDone ==
  /\ ctl.at = "zap" /\ ctl.todo = {}
  /\ ctl' = IF ctl.then # "pick" /\ k.state[k.current] = "zombie" THEN Suspend
            ELSE [at |-> ctl.then]
  /\ UNCHANGED <<k, shutting>>

\* Mutant of ClockInterrupt: demotion is not stopped at the lowest level.
DemotesPastTheLastLevel ==
  LET c == k.current
      left == k.ticks[c] - 1
  IN  /\ InUserMode
      /\ k' = [k EXCEPT !.ticks[c] = IF left < -1 THEN -1 ELSE left,
                        !.level[c] = IF left = 0 THEN @ + 1 ELSE @]
      /\ ctl' = IF left = 0 THEN Suspend ELSE Run
      /\ UNCHANGED shutting

\* Mutant of ClockInterrupt: only a process that is demoted is preempted.
PreemptsTheDemoted ==
  LET c == k.current
      left == k.ticks[c] - 1
      demoted == left = 0 /\ k.level[c] < Levels - 1
  IN  /\ InUserMode
      /\ k' = [k EXCEPT !.ticks[c] = IF left < -1 THEN -1 ELSE left,
                        !.level[c] = IF demoted THEN @ + 1 ELSE @]
      /\ ctl' = IF demoted THEN Suspend ELSE Run
      /\ UNCHANGED shutting

\* proc_got_interrupt, INTR_CLOCK.  Bound: ticks_left is not counted below -1.
ClockInterrupt ==
  LET c == k.current
      left == k.ticks[c] - 1
  IN  /\ InUserMode
      /\ k' = [k EXCEPT !.ticks[c] = IF left < -1 THEN -1 ELSE left,
                        !.level[c] = IF left = 0 /\ @ < Levels - 1 THEN @ + 1 ELSE @]
      /\ ctl' = IF left = 0 THEN Suspend ELSE Run
      /\ UNCHANGED shutting

\* proc_got_interrupt, INTR_IO.
IoInterrupt ==
  /\ InUserMode
  /\ ctl' = Suspend
  /\ UNCHANGED <<k, shutting>>

\* proc_shutdown, by the spawn server or by tty_deliver on <ctrl>Q.
Shutdown ==
  /\ InKernelServer \/ ctl.at = "suspend"
  /\ shutting' = TRUE
  /\ UNCHANGED <<k, ctl>>

-----------------------------------------------------------------------------
(* proc_yield.                                                             *)

\* A completion handler replies to process p for the device server in slot f.
DeviceReply(f, p) ==
  /\ ctl.at = "suspend"
  /\ f \in Live(k) /\ k.kind[f] = "kernel"
  /\ CanSend(k, k.pid[f], p, "reply")
  /\ k' = Send(k, k.pid[f], p, "reply")
  /\ UNCHANGED <<ctl, shutting>>

Alarms == {s \in Slot : k.state[s] = "waiting" /\ s \in k.alarm}

\* The top of the loop of proc_yield: the alarms of the processes expired have
\* gone off; or everybody is killed, the kernel is shutting down.
SuspendReturns(expired) ==
  /\ ctl.at = "suspend" /\ ~shutting
  /\ expired \subseteq Alarms
  /\ k' = Wakeup(k, expired)
  /\ ctl' = Pick
  /\ UNCHANGED shutting

\* Mutant of ShutdownScan: processes with an alarm are skipped, as if the two arms
\* of the loop over proc_set were swapped.
ScanSkipsAlarms ==
  /\ ctl.at = "suspend" /\ shutting
  /\ ctl' = [at |-> "zap", todo |-> Live(k) \ Alarms, uid |-> 0, then |-> "pick"]
  /\ UNCHANGED <<k, shutting>>

ShutdownScan ==
  /\ ctl.at = "suspend" /\ shutting
  /\ ctl' = [at |-> "zap", todo |-> Live(k), uid |-> 0, then |-> "pick"]
  /\ UNCHANGED <<k, shutting>>

\* The curfew set by proc_shutdown has passed.
Curfew ==
  /\ ctl.at = "suspend" /\ shutting
  /\ ctl' = Halt
  /\ UNCHANGED <<k, shutting>>

Queued == {l \in Level : k.runq[l] # <<>>}
First  == CHOOSE l \in Queued : \A m \in Queued : l <= m
Dequeued == [k EXCEPT !.runq[First] = Tail(@)]

\* A process that died on the run queue.  The code asserts that it is a zombie: in a
\* state where it is not, no step is possible and the run reports a deadlock.
PickZombie ==
  LET s == Head(k.runq[First])
  IN  /\ ctl.at = "pick" /\ Queued # {}
      /\ k.state[s] = "zombie"
      /\ k' = Release(Dequeued, s)
      /\ UNCHANGED <<ctl, shutting>>

\* Switch to the first runnable process (and proc_after_switch).
Dispatch ==
  LET n == Head(k.runq[First])
      c == k.current
      t == [Dequeued EXCEPT !.ticks[n] = Quantum[k.level[n]]]
      u == IF k.state[c] = "runnable"    THEN ToRunQueue(t, c)
           ELSE IF k.state[c] = "zombie" THEN Release(t, c)
           ELSE t
  IN  /\ ctl.at = "pick" /\ Queued # {}
      /\ k.state[n] = "runnable"
      /\ k' = [u EXCEPT !.current = n]
      /\ ctl' = Run
      /\ UNCHANGED shutting

\* Mutant of PickNone: the test for the last process compares with 0.
NeverLast ==
  /\ ctl.at = "pick" /\ Queued = {}
  /\ ctl' = IF k.state[k.current] = "runnable" THEN Run
            ELSE IF k.nprocs = 0 /\ shutting   THEN Halt
            ELSE Suspend
  /\ UNCHANGED <<k, shutting>>

\* Nothing on the run queues: go on with the current process, switch the machine
\* off, or wait for an interrupt.
PickNone ==
  /\ ctl.at = "pick" /\ Queued = {}
  /\ ctl' = IF k.state[k.current] = "runnable" THEN Run
            ELSE IF k.nprocs = 1 /\ shutting   THEN Halt
            ELSE Suspend
  /\ UNCHANGED <<k, shutting>>

Halted == ctl.at = "halt" /\ UNCHANGED vars

-----------------------------------------------------------------------------
\* proc_initialize: the process "main" runs in the first slot and owns itself.
Init ==
  /\ k = [ state   |-> [s \in Slot |-> IF s = 1 THEN "runnable" ELSE "free"],
           pid     |-> [s \in Slot |-> IF s = 1 THEN 1 ELSE NoPid],
           uid     |-> [s \in Slot |-> 0],
           owner   |-> [s \in Slot |-> IF s = 1 THEN 1 ELSE NoPid],
           kind    |-> [s \in Slot |-> "kernel"],
           level   |-> [s \in Slot |-> 0],
           ticks   |-> [s \in Slot |-> IF s = 1 THEN Quantum[0] ELSE 0],
           waiting |-> [s \in Slot |-> {}],
           msgs    |-> [s \in Slot |-> NoMsgs],
           server  |-> [s \in Slot |-> NoPid],
           alarm   |-> {},
           recv    |-> [s \in Slot |-> "none"],
           runq    |-> [l \in Level |-> <<>>],
           free    |-> [j \in 1..(MaxProcs - 1) |-> j + 1],
           nprocs  |-> 1, nrunnable |-> 1, gen |-> 2, current |-> 1 ]
  /\ ctl = Run
  /\ shutting = FALSE

Next ==
  \/ \E type \in {"request", "event"}, timed \in BOOLEAN : Recv(type, timed)
  \/ \E p \in 1..MaxPid : Rpc(p)
  \/ \E p \in 1..MaxPid, type \in {"reply", "event"} : SendMsg(p, type)
  \/ Resume
  \/ Exit
  \/ \E f \in Slot, u \in Uids, kind \in Kinds : Create(f, u, kind)
  \/ \E f, s \in Slot : Kill(f, s)
  \/ \E f \in Slot : KillAll(f)
  \/ ZapStep
  \/ ZapDone
  \/ ClockInterrupt
  \/ IoInterrupt
  \/ Shutdown
  \/ \E f \in Slot, p \in 1..MaxPid : DeviceReply(f, p)
  \/ \E expired \in SUBSET Alarms : SuspendReturns(expired)
  \/ ShutdownScan
  \/ Curfew
  \/ PickZombie
  \/ Dispatch
  \/ PickNone
  \/ Halted

Spec == Init /\ [][Next]_vars

\* The kernel never stops on its own path: every step of proc_yield is taken; poll()
\* returns, however often device handlers run meanwhile; and the interval timer
\* (earth/clock.c) keeps interrupting a process in user mode.
Fairness ==
  /\ WF_vars(Resume)
  /\ WF_vars(ZapStep) /\ WF_vars(ZapDone)
  /\ SF_vars((\E expired \in SUBSET Alarms : SuspendReturns(expired)) \/ ShutdownScan)
  /\ WF_vars(PickZombie \/ Dispatch \/ PickNone)
  /\ WF_vars(ClockInterrupt)

FairSpec == Spec /\ Fairness

-----------------------------------------------------------------------------
(* What makes the module correct.                                          *)

TypeOK ==
  /\ k \in Table
  /\ ctl \in Control
  /\ shutting \in BOOLEAN

Count(q, s) == Cardinality({i \in 1..Len(q) : q[i] = s})

\* The counters proc_nprocs and proc_nrunnable, kept up to date by hand in seven
\* functions, and the free list agree with the states of the slots.
Accounting ==
  /\ k.nrunnable = Cardinality({s \in Slot : k.state[s] = "runnable"})
  /\ k.nprocs = Cardinality(Live(k))
  /\ \A s \in Slot : Count(k.free, s) = IF s \in Live(k) THEN 0 ELSE 1

\* A process that can run, or that died while it could, is on exactly one run queue
\* exactly once, a runnable one on that of its level: otherwise it would never run,
\* run twice at once, or be released twice or never.  No other process is on one.
QueuedOnce ==
  \A s \in Slot :
    LET on == {l \in Level : Count(k.runq[l], s) > 0}
    IN  IF s # k.current /\ k.state[s] \in {"runnable", "zombie"}
        THEN \E l \in Level : /\ on = {l} /\ Count(k.runq[l], s) = 1
                              /\ k.state[s] = "runnable" => l = k.level[s]
        ELSE on = {}

\* A process is in state WAITING exactly when it is inside proc_recv with one mailbox
\* marked as waiting, and that mailbox is empty; only then can its alarm go off.
WaitingInv ==
  \A s \in Slot :
    /\ k.state[s] = "waiting"  => /\ k.recv[s] # "none"
                                  /\ k.waiting[s] = {k.recv[s]}
                                  /\ k.msgs[s][k.recv[s]] = <<>>
    /\ k.state[s] = "runnable" => k.waiting[s] = {} /\ s \notin k.alarm

\* A reply is only ever in the mailbox of a process that is about to return from an
\* RPC, there is only one, and it comes from the server of that RPC: the assertions
\* of proc_recv (no reply before the wait) and of sys_rpc (src == pid) hold.
ReplyInv ==
  \A s \in Slot :
    k.msgs[s]["reply"] # <<>> =>
      \/ k.state[s] = "zombie"
      \/ /\ k.state[s] = "runnable" /\ k.recv[s] = "reply"
         /\ k.msgs[s]["reply"] = <<k.server[s]>>

Alive(t, p) == \E s \in Slot : t.pid[s] = p /\ t.state[s] \in {"runnable", "waiting"}

\* A process that waits for a reply waits for a server that is alive: whenever a
\* server dies, its clients' RPCs are failed, also those it had not received yet.
ClientHasServer ==
  \A s \in Slot :
    k.state[s] = "waiting" /\ "reply" \in k.waiting[s] => Alive(k, k.server[s])

\* An RPC ends by a reply or by the death of the server, never by a timeout: an alarm
\* armed for an earlier receive does not survive into it.
RpcEnds ==
  [][\A s \in Slot :
       k.state[s] = "waiting" /\ k.recv[s] = "reply" /\ k'.state[s] = "runnable"
         => k'.msgs[s]["reply"] # <<>> \/ ~Alive(k', k.server[s])]_vars

\* When the run queues are drained while the kernel shuts down, the current process
\* is the only one left and it is dead: proc_yield switches the machine off at once
\* and never waits for an interrupt or for its curfew.
ShutdownDrains ==
  ctl.at = "pick" /\ shutting /\ Queued = {} =>
    k.nprocs = 1 /\ k.state[k.current] = "zombie"

\* Once a process gives up the CPU while the kernel is shutting down, the machine
\* is switched off, whatever the devices and the users still do.
ShutdownCompletes == (shutting /\ ctl.at = "suspend") ~> (ctl.at = "halt")

\* A user process that has ticks of its quantum left does not keep the CPU from one on the
\* run queues: the clock takes it away.  (One that used its quantum up while it was alone
\* does: ticks_left is compared with 0 and goes on below it, process.c:879.)
QuantumEnds ==
  \A s \in Slot :
    (k.current = s /\ k.kind[s] # "kernel" /\ k.ticks[s] > 0 /\ Queued # {}) ~>
      (k.current # s \/ Queued = {} \/ ctl.at = "halt")

=============================================================================
