------------------------------ MODULE Streams ------------------------------
(***************************************************************************)
(* Streams (lib/stdio.c) and descriptors (lib/unistd.c) of programs.  A     *)
(* descriptor points to a counted reference to a stream; a stream buffers   *)
(* what is written until it is flushed, and what is read ahead.  The files  *)
(* are those of a file server (module RamFiles), to which a call sends one  *)
(* or more requests: between two of them other programs send theirs.  A     *)
(* cell of a file is a character.                                           *)
(***************************************************************************)
EXTENDS RamFiles, SequencesExt

CONSTANTS
  Clients,    \* programs
  Groups,     \* those that run together
  Uid,        \* and their users
  InitFiles,  \* the files at first
  Standard,   \* Standard[c]: the streams a program begins with, by descriptor
  Opens,      \* Opens[c]: what it may open: [fid, mode]
  Ops,        \* Ops[c]: the other calls it makes
  Texts,      \* what programs write
  Items,      \* the sizes and numbers of the items that they read
  Seeks,      \* the arguments of their lseek() calls
  Modes,      \* the buffer modes they may ask for
  NFds,       \* U_NFDS
  NFptrs,     \* NFptrs[c]: bound on the streams of a program
  BufSize,    \* BUFSIZ
  MaxSize,    \* bound on the size of files
  NL, None    \* a newline; nothing

ASSUME BufSizeAssumption == BufSize \in Nat \ {0}
ASSUME ItemsAssumption   == \A i \in Items : i.size \in 1..BufSize /\ i.n \in Nat \ {0}
ASSUME DescriptorsAssumption ==
  /\ NFds \in Nat /\ None \notin Nat
  /\ UNION Groups \subseteq Clients
  /\ \A c \in Clients : /\ NFptrs[c] \in Nat
                       /\ DOMAIN Standard[c] \subseteq 0..NFds - 1
                       /\ DOMAIN Standard[c] \subseteq 0..NFptrs[c] - 1
ASSUME TextsAssumption   == \A t \in Texts : t # <<>> /\ t \in Seq(Range(t))
ASSUME SeeksAssumption   == \A s \in Seeks : s.whence \in {"set", "cur", "end"} /\ s.x \in Nat
ASSUME FilesAssumption   ==
  /\ DOMAIN InitFiles = FileNo /\ MaxSize \in Nat
  /\ \A f \in FileNo :
       /\ DOMAIN InitFiles[f] = {"alloc", "uid", "mode", "cells"}
       /\ InitFiles[f].cells \in Seq(Range(InitFiles[f].cells))
  /\ \A c \in Clients : /\ \A o \in Opens[c] : o.fid \in FileNo /\ o.mode \in {"r", "w", "w+"}
                       /\ \A fd \in DOMAIN Standard[c] : Standard[c][fd].fid \in FileNo

\* The standard streams of two programs, or two of one, do not write to the same file.
ASSUME WritersAssumption ==
  \A g \in Groups : \A c, d \in g : \A a \in DOMAIN Standard[c], b \in DOMAIN Standard[d] :
    Standard[c][a].writes /\ Standard[d][b].writes /\ Standard[c][a].fid = Standard[d][b].fid
      => c = d /\ a = b

VARIABLES
  files,   \* the file server's
  p,       \* p[c]: a program's descriptors, streams, and how far it is in a call
  log,     \* log[f]: what programs know they wrote to a file, by offset (history)
  past     \* past[f]: what has been in a file, and at which offset (history)

vars == <<files, p, log, past>>

Fds    == 0..NFds - 1
Fptrs(c) == 1..NFptrs[c]
Places == 0..MaxSize - 1

\* falloc(): a FILE.  "where" is where the program knows the next character goes.
Stream(f, writes, mode) ==
  [fid |-> f, writes |-> writes, pos |-> 0, where |-> 0, eof |-> FALSE, err |-> FALSE,
   mode |-> mode, buf |-> [i \in 1..BufSize |-> ""], index |-> 0, in |-> <<>>]
Out(s) == SubSeq(s.buf, 1, s.index)

\* u_init(): the descriptors and streams of a new program.
NewProgram(c) ==
  [at   |-> "idle", call |-> None,
   fds  |-> [fd \in Fds |-> IF fd \in DOMAIN Standard[c] THEN fd + 1 ELSE None],
   refcnt |-> [u \in Fptrs(c) |-> IF u - 1 \in DOMAIN Standard[c] THEN 1 ELSE None],
   file |-> [u \in Fptrs(c) |->
     IF u - 1 \in DOMAIN Standard[c]
     THEN Stream(Standard[c][u - 1].fid, Standard[c][u - 1].writes, Standard[c][u - 1].mode)
     ELSE None]]

NoLog   == [x \in Places |-> None]
Seen(h, fs) ==
  [f \in FileNo |-> h[f] \cup {<<i - 1, fs[f].cells[i]>> : i \in DOMAIN fs[f].cells}]

Init ==
  /\ files = InitFiles
  /\ \E group \in Groups : p = [c \in group |-> NewProgram(c)]
  /\ log = [f \in FileNo |-> NoLog]
  /\ past = Seen([f \in FileNo |-> {}], files)

-----------------------------------------------------------------------------
(* How a call goes on.  k is a program, in a call about its stream k.call.u; *)
(* k.at is the request to the file server that comes next.                  *)

FileOf(k)       == k.file[k.call.u]
With(k, s)      == [k EXCEPT !.file[k.call.u] = s]
Return(k)       == [k EXCEPT !.at = "idle", !.call = None]
Goto(k, at, op) == [k EXCEPT !.at = at, !.call.op = op]

\* fread() returns what is buffered; it reads ahead if that is too little, but not after the end of
\* the file or a request that read less than it asked for.  fgets() stops at the end of a line.
\* What is left is moved to the front (stdio.c:281-285 moves as many characters as there were
\* before, so more than are left, but no more than the buffer holds).
Deliver(k) ==
  LET s     == FileOf(k)
      items == Min({k.call.n, Len(s.in) \div k.call.size})
      lines == {i \in 1..items : k.call.op = "gets" /\ s.in[i] = NL}
      m     == IF lines # {} THEN Min(lines) ELSE items * k.call.size
      rest  == SubSeq(s.in, m + 1, Len(s.in))
      moved == rest \o [i \in 1..IF rest = <<>> THEN 0 ELSE m |-> Garbage]
      s1    == [s EXCEPT !.in = rest, !.pos = @ + m, !.where = @ + m]
      k1    == [k EXCEPT !.call.n = @ - items]
  IN  IF items = k.call.n \/ lines # {} \/ k.call.short \/ s.eof THEN Return(With(k1, s1))
      ELSE Goto(With(k1, [s1 EXCEPT !.in = moved]), "fill", k.call.op)

\* Whether fwrite() may keep what is in the buffer.
Kept(s) ==
  /\ s.index < BufSize
  /\ \/ s.mode = "full"
     \/ s.mode = "line" /\ NL \notin Range(s.buf)

\* The loop of fwrite(): as much as fits goes into the buffer.
Fit(k) ==
  LET s     == FileOf(k)
      chunk == Min({Len(k.call.rest), BufSize - s.index})
      s1    == [s EXCEPT !.buf = [i \in DOMAIN @ |->
                  IF i - s.index \in 1..chunk THEN k.call.rest[i - s.index] ELSE @[i]],
                !.index = @ + chunk]
      k1    == [With(k, s1) EXCEPT !.call.rest = SubSeq(@, chunk + 1, Len(@))]
  IN  IF k1.call.rest = <<>> /\ Kept(s1) THEN Return(k1) ELSE Goto(k1, "flush", "write")

\* (a bug: what was read ahead stays)
MovedOnly(s, x) == [s EXCEPT !.pos = x, !.eof = FALSE]

\* fseek() tosses what was read ahead.
Moved(s, x) == [s EXCEPT !.in = <<>>, !.pos = x, !.eof = FALSE]

\* The last reference to a stream is freed; the pointer to it stays.
Dropped(k) == [k EXCEPT !.refcnt[k.call.u] = None, !.file[k.call.u] = None]

\* (a bug: the reference is not counted)
AssignUncounted(k) == [k EXCEPT !.fds[k.call.fd] = k.call.from]

\* dup2() makes the descriptor one of the other's stream.
Assign(k) == [k EXCEPT !.fds[k.call.fd] = k.call.from, !.refcnt[k.call.from] = @ + 1]

\* close() is over: dup2() goes on.
Closed(k) == Return(IF k.call.from # None THEN Assign(k) ELSE k)

\* What follows a call of fflush(), by what it was for.
Then(k) ==
  LET s == FileOf(k)
      w == k.call
  IN  CASE w.op = "write" ->
             IF s.err \/ w.rest = <<>> THEN Return(k) ELSE Fit(k)
        [] w.op \in {"read", "gets"} ->
             IF s.err THEN Return(k) ELSE Deliver(k)
        [] w.op = "seek" -> 
             Goto(With(k, Moved(s, IF w.whence = "cur" THEN s.pos + w.x ELSE w.x)), "flush", "tell")
        [] w.op = "tell" -> Return(With(k, [s EXCEPT !.where = s.pos]))
        [] w.op = "close" ->
             LET k1 == [k EXCEPT !.refcnt[w.u] = @ - 1, !.fds[w.fd] = None]
             IN  IF k.refcnt[w.u] = 1 THEN Goto(k1, "flush", "fclose") ELSE Closed(k1)
        [] w.op = "fclose" -> Closed(Dropped(k))
        [] w.op = "sync" -> Return(k)

\* (a bug: the position stays)
FlushedInPlace(s) == [s EXCEPT !.index = 0]
\* fflush() went well.
Flushed(s) == [s EXCEPT !.index = 0, !.pos = @ + s.index]

\* fflush(): file_write(), unless the buffer is empty.
Flush(c) ==
  /\ p[c].at = "flush"
  /\ LET k == p[c]
         s == FileOf(k)
         a == WriteFile(files, Uid[c], s.fid, s.pos, Out(s))
     IN  IF s.index = 0
         THEN p' = [p EXCEPT ![c] = Then(k)] /\ UNCHANGED <<files, log, past>>
         ELSE /\ files' = a.files
              /\ past' = Seen(past, files')
              /\ p' = [p EXCEPT ![c] =
                   Then(With(k, IF a.ok THEN Flushed(s) ELSE [s EXCEPT !.err = TRUE]))]
              /\ log' = IF a.ok THEN log ELSE [log EXCEPT ![s.fid] = NoLog]

\* fread(): file_read() as much as fits behind what is buffered.
Fill(c) ==
  /\ p[c].at = "fill"
  /\ LET k    == p[c]
         s    == FileOf(k)
         room == BufSize - Len(s.in)
         a    == ReadFile(files, Uid[c], s.fid, s.pos + Len(s.in), room)
         s1   == [s EXCEPT !.in = @ \o a.value, !.eof = @ \/ a.value = <<>>]
         k1   == [With(k, s1) EXCEPT !.call.short = k.call.op = "read" /\ Len(a.value) < room]
     IN  p' = [p EXCEPT ![c] = IF a.ok THEN Deliver(k1)
                               ELSE Return(With(k, [s EXCEPT !.err = TRUE]))]
  /\ UNCHANGED <<files, log, past>>

\* fseek() from the end: file_stat(), before the buffer is flushed.
StatEnd(c) ==
  /\ p[c].at = "stat"
  /\ LET k == p[c]
         a == StatFile(files, Uid[c], FileOf(k).fid)
     IN  p' = [p EXCEPT ![c] =
           IF a.ok THEN Goto([k EXCEPT !.call.x = Len(a.value.cells) + @], "flush", "seek")
           ELSE Return(k)]
  /\ UNCHANGED <<files, log, past>>

-----------------------------------------------------------------------------
(* Calls.  Programs do not use a descriptor that is not open, nor call dup() *)
(* when all are: those calls of dup2() and dup() follow a stale pointer.    *)

Calling(c, call, at) == p' = [p EXCEPT ![c].at = at, ![c].call = call]
Of(c, fd, op) == [op |-> op, fd |-> fd, u |-> p[c].fds[fd], from |-> None]

FreeFds(c)  == {fd \in Fds : p[c].fds[fd] = None}
Usable(c, fd) == p[c].at = "idle" /\ p[c].fds[fd] # None
Streaming(c)  == {u \in Fptrs(c) : p[c].refcnt[u] # None}
Writing(f)    == \E c \in DOMAIN p : \E u \in Streaming(c) :
                   p[c].file[u].fid = f /\ p[c].file[u].writes

\* open() of a file that is there: fopen() makes "w" files empty, if it can.
Open(c, f, mode) ==
  LET free == Fptrs(c) \ Streaming(c)
      cut  == SetFileSize(files, Uid[c], f, 0)
      a    == IF mode = "w" THEN cut ELSE Answer(files, TRUE, 0)
      fd   == Min(FreeFds(c))
      u    == Min(free)
  IN  /\ p[c].at = "idle"
      /\ FreeFds(c) # {}
      /\ free # {}
      /\ mode # "r" => ~Writing(f)    \* bound: one writer of a file
      /\ files' = a.files
      /\ log' = IF mode = "w" /\ a.ok THEN [log EXCEPT ![f] = NoLog] ELSE log
      /\ p' = [p EXCEPT ![c].fds[fd] = u,
                        ![c].refcnt[u] = 1,
                        ![c].file[u] = Stream(f, mode # "r", "full")]
      /\ UNCHANGED past

\* read(), fgets()
Read(c, fd, op, item) ==
  /\ Usable(c, fd)
  /\ Calling(c, [op |-> op, fd |-> fd, u |-> p[c].fds[fd], from |-> None,
                 size |-> item.size, n |-> item.n, short |-> FALSE], "flush")
  /\ UNCHANGED <<files, log, past>>

\* write(): fails at once after an error.  Programs only write to what they opened to write
\* (fwrite() does not look at _FILE_WRITE).
Write(c, fd, text) ==
  LET k == [p[c] EXCEPT !.call = [op |-> "write", fd |-> fd, u |-> p[c].fds[fd],
                                 from |-> None, rest |-> text]]
      s == FileOf(k)
      n == Len(text)
  IN  /\ Usable(c, fd)
      /\ ~s.err /\ s.writes
      /\ s.where + n <= MaxSize
      /\ p' = [p EXCEPT ![c] = Fit(With(k, [s EXCEPT !.where = @ + n]))]
      /\ log' = [log EXCEPT ![s.fid] =
                   [x \in Places |-> IF x - s.where \in 0..n - 1 THEN text[x - s.where + 1] ELSE @[x]]]
      /\ UNCHANGED <<files, past>>

\* lseek(): fseek() and ftell().  Nothing is flushed or tossed if the position stays.
Seek(c, fd, whence, x) ==
  LET call == [op |-> "seek", fd |-> fd, u |-> p[c].fds[fd], from |-> None,
               whence |-> whence, x |-> x]
      s    == p[c].file[p[c].fds[fd]]
      stay == IF whence = "cur" THEN x = 0 ELSE x = s.pos
  IN  /\ Usable(c, fd)
      /\ whence = "cur" => s.where + x <= MaxSize
      /\ IF whence # "end" /\ stay
         THEN p' = [p EXCEPT ![c].at = "flush", ![c].call = [call EXCEPT !.op = "tell"],
                             ![c].file[call.u].eof = FALSE]
         ELSE Calling(c, call, IF whence = "end" THEN "stat" ELSE "flush")
      /\ UNCHANGED <<files, log, past>>

\* dup()
Dup(c, fd) ==
  /\ Usable(c, fd)
  /\ FreeFds(c) # {}
  /\ p' = [p EXCEPT ![c] =
       Return(Assign([p[c] EXCEPT !.call = [fd |-> Min(FreeFds(c)), from |-> p[c].fds[fd]]]))]
  /\ UNCHANGED <<files, log, past>>

\* dup2(): closes the second one first if it is open.
Dup2(c, fd, fd2) ==
  /\ Usable(c, fd)
  /\ fd # fd2
  /\ LET from == p[c].fds[fd]
     IN  IF p[c].fds[fd2] # None
         THEN Calling(c, [Of(c, fd2, "close") EXCEPT !.from = from], "flush")
         ELSE p' = [p EXCEPT ![c] = Return(Assign([p[c] EXCEPT !.call = [fd |-> fd2, from |-> from]]))]
  /\ UNCHANGED <<files, log, past>>

\* close(), fflushsync()
Close(c, fd) ==
  /\ Usable(c, fd)
  /\ Calling(c, Of(c, fd, "close"), "flush")
  /\ UNCHANGED <<files, log, past>>
FlushSync(c, fd) ==
  /\ Usable(c, fd)
  /\ Calling(c, Of(c, fd, "sync"), "flush")
  /\ UNCHANGED <<files, log, past>>

\* setvbuf(), before the stream is used.
SetVBuf(c, fd, mode) ==
  /\ Usable(c, fd)
  /\ LET u == p[c].fds[fd]
         s == p[c].file[u]
     IN  /\ s.pos = 0 /\ s.index = 0 /\ s.in = <<>>
         /\ p' = [p EXCEPT ![c].file[u].mode = mode, ![c].file[u].index = 0]
  /\ UNCHANGED <<files, log, past>>

\* exit(): nothing is flushed.  Another program follows.
Exit(c) ==
  /\ p[c].at = "idle"
  /\ \A fd \in DOMAIN Standard[c] : Standard[c][fd].writes =>    \* bound: one writer of a file
       \A d \in DOMAIN p \ {c} : \A u \in Streaming(d) :
         ~(p[d].file[u].writes /\ p[d].file[u].fid = Standard[c][fd].fid)
  /\ p' = [p EXCEPT ![c] = NewProgram(c)]
  /\ log' = [f \in FileNo |->
       IF \E u \in Streaming(c) : p[c].file[u].writes /\ p[c].file[u].fid = f
       THEN NoLog ELSE log[f]]
  /\ UNCHANGED <<files, past>>

Steps(c) == Flush(c) \/ Fill(c) \/ StatEnd(c)

Call(c) ==
  \/ \E o \in Opens[c] : Open(c, o.fid, o.mode)
  \/ \E fd \in Fds, op \in Ops[c] \cap {"read", "gets"}, i \in Items :
       (op = "gets" => i.size = 1) /\ Read(c, fd, op, i)
  \/ "write" \in Ops[c] /\ \E fd \in Fds, t \in Texts : Write(c, fd, t)
  \/ "seek" \in Ops[c] /\ \E fd \in Fds, s \in Seeks : Seek(c, fd, s.whence, s.x)
  \/ "dup" \in Ops[c] /\ \E fd \in Fds : Dup(c, fd)
  \/ "dup2" \in Ops[c] /\ \E fd, fd2 \in Fds : Dup2(c, fd, fd2)
  \/ "close" \in Ops[c] /\ \E fd \in Fds : Close(c, fd)
  \/ "sync" \in Ops[c] /\ \E fd \in Fds : FlushSync(c, fd)
  \/ "setvbuf" \in Ops[c] /\ \E fd \in Fds, m \in Modes : SetVBuf(c, fd, m)
  \/ "exit" \in Ops[c] /\ Exit(c)

Next == \E c \in DOMAIN p : Steps(c) \/ Call(c)

Spec == Init /\ [][Next]_vars

-----------------------------------------------------------------------------
(* Properties.                                                              *)

\* The reference of every open descriptor is there and counts the descriptors that have it (one
\* that dup2() still has to assign is not open): a stream is freed with its last descriptor only.
Holders(c, u) == {fd \in Fds : p[c].fds[fd] = u}
CountsAgree ==
  \A c \in DOMAIN p : \A u \in Fptrs(c) :
    IF p[c].refcnt[u] = None THEN Holders(c, u) = {}
    ELSE /\ p[c].refcnt[u] = Cardinality(Holders(c, u))
         /\ p[c].at = "idle" => Holders(c, u) # {}

\* What is read ahead for a program that only reads was in the file there.
InputIsFile ==
  \A c \in DOMAIN p : \A u \in Streaming(c) :
    LET s == p[c].file[u]
    IN  ~s.writes => \A i \in DOMAIN s.in : <<s.pos + i - 1, s.in[i]>> \in past[s.fid]

\* What the one writer of a file wrote, where write() and lseek() told it it was, is in the file or
\* still to be written there, whatever it read or moved in between, until a write fails.
Pending(c, u) ==
  Out(p[c].file[u]) \o
    (IF p[c].at # "idle" THEN IF p[c].call.u = u /\ p[c].call.op = "write" THEN p[c].call.rest
                              ELSE <<>> ELSE <<>>)
LogIsFile ==
  \A c \in DOMAIN p : \A u \in Streaming(c) :
    LET s    == p[c].file[u]
        text == Put(files[s.fid].cells, s.pos, Pending(c, u))
    IN  s.writes /\ ~s.err =>
          \A x \in Places : log[s.fid][x] # None => x < Len(text) /\ text[x + 1] = log[s.fid][x]
=============================================================================
