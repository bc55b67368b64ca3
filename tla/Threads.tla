------------------------------- MODULE Threads -------------------------------
(***************************************************************************)
(* The threads and semaphores of a process (apps/mt.c), with the tests that *)
(* main() makes of them: producers and consumers of a ring of slots, and a  *)
(* barber with customers.  A thread runs until a call switches to another   *)
(* one; a step is what the running thread does up to the end of a call or   *)
(* a switch.  A third test, "any", has threads that call whatever they like. *)
(***************************************************************************)
EXTENDS Queue

CONSTANTS
  Groups,     \* the tests of a process, in order: sequences of [kind, makes]
  NThreads,   \* bound on the threads there are at once besides main's
  NSLOTS,     \* slots of the ring
  NSeats,     \* free_seats at first
  NRounds,    \* what a consumer takes before it returns
  NCalls,     \* bound on the calls of a thread of test "any"
  None

ASSUME SlotsAssumption == NSLOTS \in Nat \ {0}
ASSUME BoundAssumption == NThreads \in Nat /\ NSeats \in Nat /\ NRounds \in Nat /\ NCalls \in Nat

VARIABLES
  g,      \* the globals of the package: threads, run queue, semaphores, exit code
  s,      \* what the tests share: the ring, its ends, and the free seats
  test,   \* the tests to come, and what is left to create in the current one
  ring    \* what is in the ring, oldest first (history)

vars == <<g, s, test, ring>>

Status == {"RUNNING", "RUNNABLE", "TERMINATED", "BLOCKED"}
Main   == 0
Tids   == 0..NThreads
Semas  == {"empty", "full", "lock", "ready", "waiting", "seats"}

\* Functions of threads, and points in them.
Fns == {"main", "producer", "consumer", "barber", "customer", "any"}
Pcs == {"begin", "make", "lock", "put", "full", "get", "empty", "seats", "cut", "ready",
        "look", "wait", "chair", "return", "any"}

ThreadType == [status : Status, fn : Fns, pc : Pcs, n : Nat]

\* A test with the threads it makes; every shop has a barber.
Test ==
  [kind : {"slots"}, makes : [{"producer", "consumer"} -> Nat]]
  \cup [kind : {"barber"}, makes : {m \in [{"barber", "customer"} -> Nat] : m.barber > 0}]
  \cup [kind : {"any"}, makes : [{"any"} -> Nat]]

ASSUME GroupAssumption == Groups \subseteq Seq(Test)
ASSUME NoneAssumption  == None \notin Nat /\ None \notin ThreadType

Thread(status, fn, pc) == [status |-> status, fn |-> fn, pc |-> pc, n |-> 0]
Released == [count |-> 0, blocked |-> QueueInit]

\* thread_init() leaves the status of main's thread as malloc() returns it.
Init ==
  /\ \E status \in Status :
       g = [current |-> Main, zombie |-> None, runQueue |-> QueueInit, numBlocked |-> 0,
            threads |-> [t \in Tids |-> IF t = Main THEN Thread(status, "main", "begin")
                                        ELSE None],
            semas   |-> [x \in Semas |-> Released], exit |-> None]
  /\ s = [in |-> 0, out |-> 0, slots |-> [i \in 0..NSLOTS - 1 |-> None], seats |-> NSeats]
  /\ \E group \in Groups : test = [left |-> group, makes |-> <<>>, expected |-> 0]
  /\ ring = <<>>

-----------------------------------------------------------------------------
(* thread_create(), thread_yield(), thread_exit(): h are the globals.        *)

Set(h, t, status) == [h EXCEPT !.threads[t].status = status]
Free(h)           == {t \in Tids : h.threads[t] = None}
Queue(h, t)       == [h EXCEPT !.runQueue = QueueAdd(@, t)]

\* The thread that was switched to goes on after its switch.
Resume(h) ==
  IF h.zombie = None THEN h
  ELSE [h EXCEPT !.threads[h.zombie] = None, !.zombie = None]

Switch(h) ==
  LET t == QueueFirst(h.runQueue)
  IN [Set(h, t, "RUNNING") EXCEPT !.runQueue = QueueRest(@), !.current = t]

ThreadCreate(h, fn, pc) ==
  LET new == Min(Free(h))
  IN [Queue(Set(h, h.current, "RUNNABLE"), h.current) EXCEPT
        !.threads[new] = Thread("RUNNING", fn, pc), !.current = new]

ThreadYield(h) ==
  LET old == h.current IN
  IF QueueSize(h.runQueue) = 0
  THEN IF h.threads[old].status = "BLOCKED" THEN [h EXCEPT !.exit = 0] ELSE h
  ELSE Resume(IF h.threads[old].status = "BLOCKED" THEN Switch(h)
              ELSE LET next == Switch(h) IN Queue(Set(next, old, "RUNNABLE"), old))

ThreadExit(h) ==
  IF QueueEmpty(h.runQueue)
  THEN [h EXCEPT !.exit = IF h.numBlocked > 0 THEN 1 ELSE 0]
  ELSE Resume([Switch(Set(h, h.current, "TERMINATED")) EXCEPT !.zombie = h.current])

-----------------------------------------------------------------------------
(* The semaphores: an increment hands over to the first thread blocked.      *)

SemaInit(h, x, count) == [h EXCEPT !.semas[x] = [count |-> count, blocked |-> QueueInit]]

SemaDec(h, x) ==
  IF h.semas[x].count = 0
  THEN ThreadYield([Set(h, h.current, "BLOCKED") EXCEPT
                      !.semas[x].blocked = QueueAdd(@, h.current), !.numBlocked = @ + 1])
  ELSE [h EXCEPT !.semas[x].count = @ - 1]

SemaIncKeeps(h, x) ==   \* a mistake: the thread stays counted as blocked
  LET t == QueueFirst(h.semas[x].blocked)
  IN IF QueueEmpty(h.semas[x].blocked) THEN [h EXCEPT !.semas[x].count = @ + 1]
     ELSE [Queue(Set(h, t, "RUNNABLE"), t) EXCEPT !.semas[x].blocked = QueueRest(@)]
SemaInc(h, x) ==
  LET t == QueueFirst(h.semas[x].blocked)
  IN IF QueueEmpty(h.semas[x].blocked) THEN [h EXCEPT !.semas[x].count = @ + 1]
     ELSE [Queue(Set(h, t, "RUNNABLE"), t) EXCEPT
             !.semas[x].blocked = QueueRest(@), !.numBlocked = @ - 1]

\* sema_release_robust(): the threads that are blocked are freed with the queue.
Without(threads, dead) == [t \in Tids |-> IF t \in dead THEN None ELSE threads[t]]
FreeAll(h, q) ==
  [h EXCEPT !.threads = Without(@, Range(Items(q))), !.numBlocked = @ - QueueSize(q)]

SemaRelease(h, x) == [FreeAll(h, h.semas[x].blocked) EXCEPT !.semas[x] = Released]

-----------------------------------------------------------------------------
(* What the threads do.  Code[fn][pc] is a call on a semaphore and where the *)
(* thread goes on after it; the other steps have actions of their own.       *)

Dec(x, next) == [op |-> "dec", sema |-> x, next |-> next]
Inc(x, next) == [op |-> "inc", sema |-> x, next |-> next]

Producer ==
  [begin |-> Dec("empty", "lock"), lock |-> Dec("lock", "put"), full |-> Inc("full", "begin")]
Consumer ==
  [begin |-> Dec("full", "lock"), lock |-> Dec("lock", "get"), empty |-> Inc("empty", "begin")]
Barber ==
  [begin |-> Dec("waiting", "seats"), seats |-> Dec("seats", "cut"),
   ready |-> Inc("ready", "begin")]
Customer ==
  [begin |-> Dec("seats", "look"), wait |-> Inc("waiting", "chair"),
   chair |-> Dec("ready", "return")]
Code == [producer |-> Producer, consumer |-> Consumer, barber |-> Barber, customer |-> Customer]

Me        == g.threads[g.current]
At(pc)    == g.exit = None /\ Me.pc = pc
On(fn)    == g.exit = None /\ Me.fn = fn
Goto(pc)  == [g EXCEPT !.threads[g.current].pc = pc]
Count(pc) == [Goto(pc) EXCEPT !.threads[g.current].n = @ + 1]
Served    == On("consumer") /\ At("begin") /\ Me.n = NRounds

CallSema ==
  /\ g.exit = None /\ Me.fn \in DOMAIN Code /\ Me.pc \in DOMAIN Code[Me.fn] /\ ~Served
  /\ LET c == Code[Me.fn][Me.pc]
     IN g' = IF c.op = "dec" THEN SemaDec(Goto(c.next), c.sema) ELSE SemaInc(Goto(c.next), c.sema)
  /\ UNCHANGED <<s, test, ring>>

\* producer() between its semaphores: slots[in++] = arg.
Put ==
  /\ At("put")
  /\ s' = [s EXCEPT !.slots[s.in] = g.current, !.in = (@ + 1) % NSLOTS]
  /\ ring' = Append(ring, g.current)
  /\ g' = SemaInc(Goto("full"), "lock")
  /\ UNCHANGED test

\* consumer() between its semaphores: slots[out++].
Get ==
  /\ At("get")
  /\ s' = [s EXCEPT !.out = (@ + 1) % NSLOTS]
  /\ ring' = SubSeq(ring, 2, Len(ring))
  /\ g' = SemaInc(Count("empty"), "lock")
  /\ UNCHANGED test

\* barber() frees a seat.
Cut ==
  /\ At("cut")
  /\ s' = [s EXCEPT !.seats = @ + 1]
  /\ g' = SemaInc(Goto("ready"), "seats")
  /\ UNCHANGED <<test, ring>>

SitAnyway ==   \* a mistake: the customer does not look for a free seat
  /\ At("look")
  /\ s' = [s EXCEPT !.seats = @ - 1]
  /\ g' = SemaInc(Goto("wait"), "seats")
  /\ UNCHANGED <<test, ring>>
\* customer() takes a free seat, or leaves.
Look ==
  /\ At("look")
  /\ \/ /\ s.seats > 0
        /\ s' = [s EXCEPT !.seats = @ - 1]
        /\ g' = SemaInc(Goto("wait"), "seats")
     \/ /\ s.seats = 0
        /\ g' = SemaInc(Goto("return"), "seats")
        /\ UNCHANGED s
  /\ UNCHANGED <<test, ring>>

\* ctx_entry(): the function of a thread returned.
Return ==
  /\ At("return") \/ Served \/ On("any")
  /\ g' = ThreadExit(g)
  /\ UNCHANGED <<s, test, ring>>

Create(fn) ==
  /\ fn \in DOMAIN test.makes /\ test.makes[fn] > 0 /\ Free(g) # {}
  /\ test' = [test EXCEPT !.makes[fn] = @ - 1]

\* A thread of test "any" makes any call.
AnyCall ==
  /\ On("any") /\ Me.n < NCalls
  /\ \/ Create("any") /\ g' = ThreadCreate(Count("any"), "any", "any")
     \/ UNCHANGED test /\ g' = ThreadYield(Count("any"))
     \/ UNCHANGED test /\ \E x \in {"lock", "full"} : g' = SemaDec(Count("any"), x)
     \/ UNCHANGED test /\ \E x \in {"lock", "full"} : g' = SemaInc(Count("any"), x)
  /\ UNCHANGED <<s, ring>>

-----------------------------------------------------------------------------
(* main(): one test after another.                                          *)

ToMain(h, fn, pc) == [h EXCEPT !.threads[Main].fn = fn, !.threads[Main].pc = pc]
Initial(kind) ==
  CASE kind = "slots"  -> [lock |-> 1, full |-> 0, empty |-> NSLOTS]
    [] kind = "barber" -> [ready |-> 1, waiting |-> 0, seats |-> 1]
    [] kind = "any"    -> [lock |-> 1, full |-> 0]

\* Those that never return.
Remaining(t) ==
  CASE t.kind = "slots"  -> t.makes["producer"]
    [] t.kind = "barber" -> t.makes["barber"]
    [] t.kind = "any"    -> 0

BeginTest ==
  /\ On("main") /\ At("begin") /\ test.left # <<>>
  /\ LET t == Head(test.left)
         counts == Initial(t.kind)
         ready  == [g EXCEPT !.semas = [x \in Semas |->
                      IF x \in DOMAIN counts THEN [count |-> counts[x], blocked |-> QueueInit]
                      ELSE @[x]]]
     IN /\ test' = [left |-> Tail(test.left), makes |-> t.makes, expected |-> Remaining(t)]
        /\ g' = IF t.kind = "any" THEN ToMain(ready, "any", "any") ELSE ToMain(ready, "main", "make")
  /\ ring' = <<>>
  /\ UNCHANGED s

\* Threads are made in any order; main() may yield in between.
Make ==
  /\ On("main") /\ At("make")
  /\ \E fn \in DOMAIN Code : Create(fn) /\ g' = ThreadCreate(g, fn, "begin")
  /\ UNCHANGED <<s, ring>>

Made == \A fn \in DOMAIN test.makes : test.makes[fn] = 0

YieldMain ==
  /\ On("main") /\ At("make")
  /\ Me.status = "RUNNING" \/ Made
  /\ Made => QueueSize(g.runQueue) > 0
  /\ g' = ThreadYield(g)
  /\ UNCHANGED <<s, test, ring>>

\* Those of the other tests are empty.
ReleaseAll(h) ==
  LET Slots(i) == SemaRelease(SemaRelease(SemaRelease(i, "lock"), "full"), "empty")
      Shop(i)  == SemaRelease(SemaRelease(SemaRelease(i, "ready"), "waiting"), "seats")
  IN  Shop(Slots(h))

\* No other thread can run: the test looks at what is left, and releases it.
EndTest ==
  /\ On("main") /\ At("make") /\ Made /\ QueueSize(g.runQueue) = 0
  /\ g' = IF g.current # Main \/ g.numBlocked # test.expected THEN [g EXCEPT !.exit = 1]
          ELSE ReleaseAll(ToMain(g, "main", "begin"))
  /\ UNCHANGED <<s, test, ring>>

Finish ==
  /\ On("main") /\ At("begin") /\ test.left = <<>>
  /\ g' = ThreadExit(g)
  /\ UNCHANGED <<s, test, ring>>

Next ==
  \/ CallSema \/ Put \/ Get \/ Cut \/ Look \/ Return \/ AnyCall
  \/ BeginTest \/ Make \/ YieldMain \/ EndTest \/ Finish

\* A thread runs whenever it is the current one.
Spec == Init /\ [][Next]_vars /\ WF_vars(Next)

-----------------------------------------------------------------------------
Blocked(x) == Range(Items(g.semas[x].blocked))
Queues     == {g.runQueue} \cup {g.semas[x].blocked : x \in Semas}

\* While the process runs, every thread there is is in exactly one place - it runs,
\* waits to run, or is blocked on one semaphore - and its status and
\* num_blocked_threads say so: threads move between queues that mt.c keeps by hand,
\* and a thread lost never runs again, one queued twice is freed while it is queued.
ThreadsPlaced ==
  g.exit = None =>
    /\ \A q \in Queues : QueueOK(q) /\ IsInjective(Items(q))
    /\ g.zombie = None
    /\ \A t \in Tids :
         LET places == {x \in Semas : t \in Blocked(x)}
             queued == t \in Range(Items(g.runQueue))
         IN /\ (g.threads[t] # None) <=> (t = g.current \/ queued \/ places # {})
            /\ t = g.current => ~queued /\ places = {}
            /\ queued => places = {} /\ g.threads[t].status = "RUNNABLE"
            /\ places # {} => Cardinality(places) = 1 /\ g.threads[t].status = "BLOCKED"
    /\ g.numBlocked = Cardinality(UNION {Blocked(x) : x \in Semas})

\* The threads of fn that are past the semaphore where they wait at pc.
Past(fn, pcs, x) ==
  {t \in Tids : g.threads[t] # None /\ g.threads[t].fn = fn /\ g.threads[t].pc \in pcs /\ t \notin Blocked(x)}

\* What consumers take out of the ring is what producers put in, in that order, and
\* no slot is overwritten or read twice, also from one test to the next, which goes
\* on with the ends of the ring where they are: this needs all three semaphores.
RingIntact ==
  g.exit = None =>
    /\ Len(ring) <= NSLOTS
    /\ (s.out + Len(ring)) % NSLOTS = s.in
    /\ \A i \in 1..Len(ring) : s.slots[(s.out + i - 1) % NSLOTS] = ring[i]
    /\ Me.pc = "get" => ring # <<>>

\* Every seat is free, or taken by a customer that a barber has not called yet:
\* free_seats, an unsigned number, never goes below 0 nor above its first value.
SeatsCounted ==
  /\ s.seats \in 0..NSeats
  /\ g.exit = None => s.seats + Cardinality(
         Past("customer", {"wait"}, "seats") \cup Past("barber", {"seats", "cut"}, "waiting"))
       + g.semas["waiting"].count = NSeats

\* What the threads share is right because of the semaphores.
SharedIntact == RingIntact /\ SeatsCounted

\* The tests end as they expect: all consumers and customers return, the producers
\* and the barber are blocked, main() gets the processor back, and the process exits
\* with 0 when they are all done.  One whose threads make any calls ends as well.
TestsPass ==
  <>(/\ g.exit # None /\ test.left = <<>>
     /\ Me.fn # "any" => g.exit = 0 /\ g.current = Main /\ Me.pc = "begin")
=============================================================================
