----------------------------- MODULE TtyServer -----------------------------
(***************************************************************************)
(* The terminal server (src/grass/ttysvr.c) between the keyboard and the    *)
(* processes that read from it.  tty_deliver() runs as an interrupt handler *)
(* while some process, any process, is in intr_suspend(); the server itself *)
(* takes requests from its mailbox.  The kernel is not preemptive, so the    *)
(* two never run at the same time; but a <ctrl>C that kills the process on   *)
(* whose stack tty_deliver() runs ends the handler where it is.             *)
(*                                                                         *)
(* A character is its number in the order of typing.  What is echoed or     *)
(* written to the screen is left out, and the characters that only print.   *)
(***************************************************************************)
EXTENDS Integers, Sequences, SequencesExt

CONSTANTS
  Client,     \* processes that use the terminal
  Jobs,       \* the ones that <ctrl>C kills
  Sizes,      \* sizes of read requests
  MaxChars    \* bound: characters typed

ASSUME JobAssumption   == Jobs \subseteq Client
ASSUME SizeAssumption  == Sizes \subseteq Nat
ASSUME BoundAssumption == MaxChars \in Nat

VARIABLES
  buf,        \* ts->buf, the line being typed
  inputs,     \* ts->inputs, queue of lines
  requests,   \* ts->requests, queue of read requests
  mbox,       \* requests sent to the server
  client,     \* what each client does: "idle", "waiting" (in its RPC), "dead"
  handler,    \* TRUE while tty_deliver() runs
  typed,      \* number of characters typed
  entered,    \* history: the characters of all lines queued
  taken       \* history: the characters given away in answers

vars == <<buf, inputs, requests, mbox, client, handler, typed, entered, taken>>

Char    == 1..MaxChars
Eof     == 0                          \* an empty line, from <ctrl>D
Request == [src : Client, size : Sizes]
Message == [src : Client, size : Sizes, type : {"read", "other"}]

\* A line as the history has it.
Tokens(line) == IF line = <<>> THEN <<Eof>> ELSE line

Answer(c) == [client EXCEPT ![c] = IF @ = "waiting" THEN "idle" ELSE @]

-----------------------------------------------------------------------------
\* A client sends a request and waits.  "other" is a write, sync, stat, set flags,
\* or a read of another file than stdin: all are answered at once.
Rpc(c) ==
  /\ ~handler /\ client[c] = "idle"
  /\ \E type \in {"read", "other"}, size \in Sizes :
       mbox' = Append(mbox, [src |-> c, size |-> size, type |-> type])
  /\ client' = [client EXCEPT ![c] = "waiting"]
  /\ UNCHANGED <<buf, inputs, requests, handler, typed, entered, taken>>

\* Mutant of Handle: the rest of a line is queued behind the lines typed after it.
RestGoesLast(reqs) ==
  LET tr   == Head(reqs)
      line == Head(inputs)
      n    == IF Len(line) > tr.size THEN tr.size ELSE Len(line)
      rest == SubSeq(line, n + 1, Len(line))
  IN  /\ requests' = Tail(reqs)
      /\ inputs' = IF n < Len(line) THEN Append(Tail(inputs), rest) ELSE Tail(inputs)
      /\ taken' = taken \o (IF line = <<>> THEN <<Eof>> ELSE SubSeq(line, 1, n))
      /\ client' = Answer(tr.src)

\* tty_handle(): the first request gets the first line, or as much as it asked for.
Handle(reqs) ==
  LET tr   == Head(reqs)
      line == Head(inputs)
      n    == IF Len(line) > tr.size THEN tr.size ELSE Len(line)
      rest == SubSeq(line, n + 1, Len(line))
  IN  /\ requests' = Tail(reqs)
      /\ inputs' = IF n < Len(line) THEN <<rest>> \o Tail(inputs) ELSE Tail(inputs)
      /\ taken' = taken \o (IF line = <<>> THEN <<Eof>> ELSE SubSeq(line, 1, n))
      /\ client' = Answer(tr.src)

\* Mutants of ServeRead: the request that comes in is answered before those in the
\* queue; the receive buffer is queued instead of a copy of its two fields; the queue
\* is served and the request that came in is dropped.
LastComeFirstServed ==
  /\ ~handler /\ mbox # <<>> /\ Head(mbox).type = "read"
  /\ mbox' = Tail(mbox)
  /\ LET tr == [src |-> Head(mbox).src, size |-> Head(mbox).size]
     IN  IF inputs = <<>>
         THEN requests' = Append(requests, tr) /\ UNCHANGED <<inputs, taken, client>>
         ELSE Handle(<<tr>> \o requests)
  /\ UNCHANGED <<buf, handler, typed, entered>>

ForgetsRequest ==
  /\ ~handler /\ mbox # <<>> /\ Head(mbox).type = "read"
  /\ mbox' = Tail(mbox)
  /\ LET tr == [src |-> Head(mbox).src, size |-> Head(mbox).size]
     IN  IF inputs = <<>>
         THEN requests' = Append(requests, tr) /\ UNCHANGED <<inputs, taken, client>>
         ELSE Handle(IF requests = <<>> THEN <<tr>> ELSE requests)
  /\ UNCHANGED <<buf, handler, typed, entered>>

\* tty_read(): the request joins the queue, and the first one there is answered if
\* a line has been typed already.
ServeRead ==
  /\ ~handler /\ mbox # <<>> /\ Head(mbox).type = "read"
  /\ mbox' = Tail(mbox)
  /\ LET tr == [src |-> Head(mbox).src, size |-> Head(mbox).size]
     IN  IF inputs = <<>>
         THEN requests' = Append(requests, tr) /\ UNCHANGED <<inputs, taken, client>>
         ELSE Handle(Append(requests, tr))
  /\ UNCHANGED <<buf, handler, typed, entered>>

ServeOther ==
  /\ ~handler /\ mbox # <<>> /\ Head(mbox).type = "other"
  /\ mbox' = Tail(mbox)
  /\ client' = Answer(Head(mbox).src)
  /\ UNCHANGED <<buf, inputs, requests, handler, typed, entered, taken>>

-----------------------------------------------------------------------------
(* tty_deliver(), character by character.                                  *)

Deliver ==
  /\ ~handler /\ handler' = TRUE
  /\ UNCHANGED <<buf, inputs, requests, mbox, client, typed, entered, taken>>

\* queue_add() of a finished line, and a new buffer.
Enter(line) ==
  /\ inputs' = Append(inputs, line)
  /\ entered' = entered \o Tokens(line)
  /\ buf' = <<>>

Typed ==
  /\ handler /\ typed < MaxChars /\ typed' = typed + 1
  /\ UNCHANGED <<requests, mbox, taken>>

Ordinary ==
  /\ Typed
  /\ buf' = Append(buf, typed')
  /\ UNCHANGED <<inputs, client, handler, entered>>

NewLine ==
  /\ Typed
  /\ Enter(Append(buf, typed'))
  /\ UNCHANGED <<client, handler>>

CtrlD ==
  /\ Typed
  /\ Enter(buf)
  /\ UNCHANGED <<client, handler>>

Erase ==
  /\ Typed
  /\ buf' = IF buf = <<>> THEN buf ELSE Front(buf)
  /\ UNCHANGED <<inputs, client, handler, entered>>

\* proc_kill() of the jobs.  If the handler runs on the stack of one of them the rest
\* of what was typed is lost, and the end of tty_deliver() is not reached.
CtrlC ==
  /\ Typed
  /\ client' = [c \in Client |-> IF c \in Jobs THEN "dead" ELSE client[c]]
  /\ handler' \in IF \E c \in Jobs : client[c] # "dead" THEN BOOLEAN ELSE {TRUE}
  /\ UNCHANGED <<buf, inputs, entered>>

\* The end of tty_deliver(): one request is answered, if there is a line.
DeliverEnds ==
  /\ handler /\ handler' = FALSE
  /\ IF inputs # <<>> /\ requests # <<>> THEN Handle(requests)
     ELSE UNCHANGED <<inputs, requests, client, taken>>
  /\ UNCHANGED <<buf, mbox, typed, entered>>

-----------------------------------------------------------------------------
\* tty_proc() before its loop.
Init ==
  /\ buf = <<>> /\ inputs = <<>> /\ requests = <<>> /\ mbox = <<>>
  /\ client = [c \in Client |-> "idle"]
  /\ handler = FALSE
  /\ typed = 0 /\ entered = <<>> /\ taken = <<>>

Next ==
  \/ \E c \in Client : Rpc(c)
  \/ ServeRead \/ ServeOther
  \/ Deliver \/ Ordinary \/ NewLine \/ CtrlD \/ Erase \/ CtrlC \/ DeliverEnds

Spec == Init /\ [][Next]_vars
-----------------------------------------------------------------------------
TypeOK ==
  /\ buf \in Seq(Char)
  /\ inputs \in Seq(Seq(Char))
  /\ requests \in Seq(Request)
  /\ mbox \in Seq(Message)
  /\ client \in [Client -> {"idle", "waiting", "dead"}]
  /\ handler \in BOOLEAN
  /\ typed \in 0..MaxChars
  /\ entered \in Seq(Char \cup {Eof})
  /\ taken \in Seq(Char \cup {Eof})

\* What readers get is what was typed, in order: no character and no end of file is
\* lost, duplicated, moved or invented between the keyboard and the answers, however
\* the requests cut the lines up and whoever dies.
Stream ==
  entered = taken \o FlattenSeq([i \in DOMAIN inputs |-> Tokens(inputs[i])])

\* A client that waits has exactly one request with the server, in its mailbox or in
\* its queue, and one that does not has none: no reader is forgotten or answered
\* twice.  (The request of a dead one may be there still, and takes a line.)
RequestOfWaiting ==
  \A c \in Client :
    LET mine(q) == {i \in DOMAIN q : q[i].src = c}
        n == Cardinality(mine(mbox)) + Cardinality(mine(requests))
    IN  n = 1 \/ (n = 0 /\ client[c] # "waiting")

\* Readers are answered in the order in which they asked.
ReadersInOrder ==
  [][LET asked   == requests \o mbox
         reads   == {i \in DOMAIN asked : i > Len(requests) => asked[i].type = "read"}
         src(i)  == asked[i].src
         done(c) == client[c] = "waiting" /\ client'[c] = "idle"
     IN  \A i, j \in reads : i < j /\ done(src(j)) => client'[src(i)] # "waiting"]_vars
=============================================================================
