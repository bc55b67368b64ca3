----------------------------- MODULE Directories -----------------------------
(***************************************************************************)
(* The directory server (apps/dirsvr.c), its stubs (lib/dir.c) and the      *)
(* calls of programs that take several requests to it and to the file       *)
(* server: fopen(), remove() (lib/stdio.c), and mkdir (apps/mkdir.c).  A    *)
(* directory is a file of entries that only the directory server changes,   *)
(* one request at a time, a page of entries at a time; the file server      *)
(* (module RamFiles) serves the programs between its requests.  Between two  *)
(* requests of a call anybody else may run, and a program may be killed.     *)
(***************************************************************************)
EXTENDS RamFiles, SequencesExt

CONSTANTS
  Clients,     \* processes
  Uid,         \* their users
  Calls,       \* the calls that they make: sets of [op, path]
  MaxCalls,    \* bound on how many they make together
  Killable,    \* those that may be killed in the middle of a call
  Names,       \* names of files
  DirNames,    \* names of directories, those that end in ".dir"
  TooLong,     \* names of more than DIR_NAME_SIZE characters
  PageEntries, \* NENTRIES: entries in a page
  DefaultMode, \* P_FILE_DEFAULT
  Root,        \* the file number of the directory where paths begin
  RootUid,     \* and its user
  Homes,       \* the directories that are there, with the users that they were given to
  None

ASSUME PageAssumption == PageEntries \in Nat \ {0}
ASSUME UidAssumption  == Uid \in [Clients -> Nat]
ASSUME RootAssumption == Root = 1 /\ {i + 1 : i \in {0} \cup DOMAIN Homes} \subseteq FileNo
                         /\ Homes \in Seq([name : DirNames, uid : Nat])

VARIABLES
  files,   \* the file server's
  p,       \* p[c]: how far a client is in its call
  queue,   \* requests for the directory server
  srv,     \* the directory server: what it does for a request
  calls,   \* how many calls there have been
  parted,  \* history: entries <<directory, name, file>> that have, or may have, lost their
           \* file to a program that will not remove them
  gone     \* history: numbers of directories that programs have deleted or emptied

history == <<parted, gone>>
vars == <<files, p, queue, srv, calls, history>>

Self   == "..dir"
Parent == "...dir"
Entry(name, f) == [name |-> name, fid |-> f]
Zeroed == Entry("", 0)     \* an entry after memset()
\* What nobody wrote, after a stale truncation, is taken for an entry that nobody looks for.
Unwritten(e) == e = Garbage
Free(e)      == ~Unwritten(e) /\ e = Zeroed
Idle    == [at |-> "idle"]

\* dir_install(): a directory, with its entries, that was given to a user.
Directory(uid, f, parent, entries) ==
  [alloc |-> TRUE, uid |-> uid, mode |-> DefaultMode,
   cells |-> <<Entry(Self, f), Entry(Parent, parent)>> \o entries]
HomeEntries == [i \in DOMAIN Homes |-> Entry(Homes[i].name, i + 1)]

Init ==
  /\ files = [f \in FileNo |->
       IF f = Root THEN Directory(RootUid, Root, Root, HomeEntries)
       ELSE IF f - 1 \in DOMAIN Homes THEN Directory(Homes[f - 1].uid, f, Root, <<>>)
       ELSE NoFile]
  /\ p = [c \in Clients |-> Idle]
  /\ queue = <<>>
  /\ srv = [at |-> "idle"]
  /\ calls = 0 /\ parted = {} /\ gone = {}

-----------------------------------------------------------------------------
(* The directory server.                                                    *)

Request(c, op, dir, name, f) ==
  [client |-> c, uid |-> Uid[c], op |-> op, dir |-> dir, name |-> name, fid |-> f]

\* dir_do_lookup() reads the directory's permission, the others write it.
Permitted(r, file) ==
  IF r.op = "lookup" THEN Permits(file, r.uid, "ownerRead", "otherRead")
  ELSE Permits(file, r.uid, "ownerWrite", "otherWrite")

Scan(r)         == [at |-> "scan", req |-> r, offset |-> 0, free |-> None]
Store(r, x, e)  == [at |-> "store", req |-> r, offset |-> x, entry |-> e]
Respond(r, s, f) == [at |-> "respond", req |-> r, status |-> s, fid |-> f]

\* (a bug: no answer to a name that is too long)
BeginSilently(r) ==
  IF r.name \in TooLong THEN [at |-> "idle"]
  ELSE IF r.uid = 0 THEN Scan(r)
  ELSE [at |-> "stat", req |-> r]

\* Names that are too long are refused, and the super-user's permissions are not checked.
Begin(r) ==
  IF r.name \in TooLong THEN Respond(r, FALSE, 0)
  ELSE IF r.uid = 0 THEN Scan(r)
  ELSE [at |-> "stat", req |-> r]

\* sys_recv()
Receive ==
  /\ srv.at = "idle"
  /\ queue # <<>>
  /\ queue' = Tail(queue)
  /\ srv' = Begin(Head(queue))
  /\ UNCHANGED <<files, p, calls, history>>

\* file_stat() of the directory.
Stat ==
  /\ srv.at = "stat"
  /\ LET a == StatFile(files, 0, srv.req.dir)
     IN  srv' = IF ~a.ok THEN Respond(srv.req, FALSE, 0)
                ELSE IF ~Permitted(srv.req, a.value) THEN Respond(srv.req, FALSE, 0)
                ELSE Scan(srv.req)
  /\ UNCHANGED <<files, p, queue, calls, history>>

\* The first entry of a page that a request looks for: of that name and, to remove it, that file.
Matches(r, e) ==
  ~Unwritten(e) /\ e.name = r.name /\ (r.op = "remove" => e.fid = r.fid)
\* (a bug: no look at whether a name to insert is there)
HitsUnlessInsert(r, page) == {i \in DOMAIN page : r.op # "insert" /\ Matches(r, page[i])}
\* (a bug: the loop begins after the first entry of a page)
HitsFromTwo(r, page) == {i \in DOMAIN page : i > 1 /\ Matches(r, page[i])}
Hits(r, page) == {i \in DOMAIN page : Matches(r, page[i])}

\* The first free entry, here or in a page before.
FirstFree(page) ==
  LET free == {i \in DOMAIN page : Free(page[i])}
  IN  IF srv.free # None \/ free = {} THEN srv.free ELSE srv.offset + Min(free) - 1

\* The scan is over: the name is not there.
NotThere(r) ==
  CASE r.op = "lookup" -> Respond(r, FALSE, 0)
    [] r.op = "remove" -> Respond(r, TRUE, r.fid)
    [] r.op = "insert" -> Store(r, IF srv.free = None THEN srv.offset ELSE srv.free,
                                Entry(r.name, r.fid))

\* An entry of that name is at x.
There(r, x, e) ==
  CASE r.op = "lookup" -> Respond(r, TRUE, e.fid)
    [] r.op = "insert" -> Respond(r, FALSE, 0)
    [] r.op = "remove" -> Store(r, x, Zeroed)

\* file_read() of a page, and the loop over its entries.
ReadPage ==
  /\ srv.at = "scan"
  /\ LET r    == srv.req
         a    == ReadFile(files, 0, r.dir, srv.offset, PageEntries)
         page == a.value
     IN  srv' = IF ~a.ok THEN Respond(r, FALSE, 0)
                ELSE IF page = <<>> THEN NotThere(r)
                ELSE IF Hits(r, page) # {}
                THEN There(r, srv.offset + Min(Hits(r, page)) - 1, page[Min(Hits(r, page))])
                ELSE [srv EXCEPT !.offset = @ + Len(page), !.free = FirstFree(page)]
  /\ UNCHANGED <<files, p, queue, calls, history>>

\* file_write() of an entry.
StoreEntry ==
  /\ srv.at = "store"
  /\ LET a == WriteFile(files, 0, srv.req.dir, srv.offset, <<srv.entry>>)
     IN  /\ files' = a.files
         /\ srv' = Respond(srv.req, a.ok, srv.req.fid)
  /\ UNCHANGED <<p, queue, calls, history>>

-----------------------------------------------------------------------------
(* The calls.  A client comes to "ask", with a request for the directory     *)
(* server in its "ask", sends it, and waits for the answer; a request to the *)
(* file server is one step.                                                 *)

Mode == DefaultMode   \* that of all files that are created

Asking(q, r)   == [q EXCEPT !.at = "ask", !.ask = r]
Goto(q, label) == [q EXCEPT !.at = label]
LastName(q)    == Head(q.path)
Triple(r)      == <<r.dir, r.name, r.fid>>

\* What a client asks in flookup() for the next name of its path.
Look(c, q) == Asking(q, Request(c, "lookup", q.dir, Head(q.path), 0))

\* The last name was there: fopen() may truncate the file, remove() deletes it, mkdir() fails.
Found(c, q) ==
  CASE q.op = "read"   -> Idle
    [] q.op = "write"  -> Goto(q, "truncate")
    [] q.op = "remove" -> Goto(q, "delete")
    [] q.op = "mkdir"  -> Idle

\* It was not: a file is created to be written, or for a directory.
NotFound(c, q) == IF q.op \in {"write", "mkdir"} THEN Goto(q, "create") ELSE Idle

\* What a client does with the answer of the directory server.
After(c, q, ok, f) ==
  CASE q.ask.op = "lookup" /\ ~ok ->
         IF Len(q.path) = 1 THEN NotFound(c, q) ELSE Idle
    [] q.ask.op = "lookup" /\ ok ->
         IF Len(q.path) = 1 THEN Found(c, [q EXCEPT !.fid = f])
         ELSE Look(c, [q EXCEPT !.dir = f, !.path = Tail(@)])
    [] q.ask.op = "insert" ->
         IF ~ok \/ q.op = "mkdir" THEN Idle ELSE Goto(q, "truncate")
    [] q.ask.op = "remove" -> Idle

\* sys_rpc() of a stub of lib/dir.c: others may have sent theirs since the client's last answer.
Send(c) ==
  /\ p[c].at = "ask"
  /\ queue' = Append(queue, p[c].ask)
  /\ p' = [p EXCEPT ![c].at = "wait"]
  /\ UNCHANGED <<files, srv, calls, history>>

\* dir_respond(): the client, if it is alive, goes on.  An entry whose removal is refused stays.
Reply ==
  /\ srv.at = "respond"
  /\ LET c == srv.req.client
     IN  p' = [p EXCEPT ![c] = IF @.at = "wait" THEN After(c, @, srv.status, srv.fid) ELSE @]
  /\ srv' = [at |-> "idle"]
  /\ parted' = IF srv.req.op = "remove" /\ ~srv.status THEN parted \cup {Triple(srv.req)} ELSE parted
  /\ UNCHANGED <<files, queue, calls, gone>>

\* A program calls fopen(), remove() or mkdir() with a path from the root or from its directory.
Call(c, op, path) ==
  /\ p[c].at = "idle"
  /\ calls < MaxCalls /\ calls' = calls + 1
  /\ p' = [p EXCEPT ![c] = Look(c, [at |-> "idle", op |-> op, path |-> path, dir |-> Root,
                                    fid |-> None, ask |-> None])]
  /\ UNCHANGED <<files, queue, srv, history>>

\* What comes after the file is there: dir_insert().
Inserting(c, q) == Asking(q, Request(c, "insert", q.dir, LastName(q), q.fid))

\* file_create(): then a directory gets its first entries, a file its entry.
Create(c) ==
  /\ p[c].at = "create"
  /\ LET a == CreateFile(files, Uid[c], Mode)
         q == [p[c] EXCEPT !.fid = a.value]
     IN  /\ files' = a.files
         /\ p' = [p EXCEPT ![c] = IF ~a.ok THEN Idle
                                  ELSE IF q.op = "mkdir" THEN Goto(q, "dots")
                                  ELSE Inserting(c, q)]
  /\ UNCHANGED <<queue, srv, calls, history>>

\* dir_create2(): file_write() of the entries for itself and its parent; the program ends if it
\* cannot (an assertion).
Dots(c) ==
  /\ p[c].at = "dots"
  /\ LET q == p[c]
         a == WriteFile(files, Uid[c], q.fid, 0, <<Entry(Self, q.fid), Entry(Parent, q.dir)>>)
     IN  /\ files' = a.files
         /\ p' = [p EXCEPT ![c] = IF a.ok THEN Inserting(c, q) ELSE [at |-> "exited"]]
  /\ UNCHANGED <<queue, srv, calls, history>>

\* The entries in the directories, and those that programs are about to insert.
Entries(f) == {e \in Range(files[f].cells) : ~Unwritten(e) /\ ~Free(e)}
Triples    == UNION {{<<f, e.name, e.fid>> : e \in Entries(f)} : f \in FileNo}
Named      == {t \in Triples : t[2] \notin {Self, Parent}}
Underway(op) ==
  {r \in Range(queue) \cup (IF srv.at = "idle" THEN {} ELSE {srv.req}) : r.op = op}
Planned    ==
  {Triple(r) : r \in Underway("insert")}
  \cup {<<p[c].dir, LastName(p[c]), p[c].fid>> :
          c \in {d \in Clients : \/ p[d].at = "dots"
                                 \/ p[d].at = "ask" /\ p[d].ask.op = "insert"}}

\* What a deletion or a truncation does to a directory.
Empties(a, f) == IF a.ok /\ Entries(f) # {} THEN gone \cup {f} ELSE gone

\* fopen(): file_setsize(), whose failure is ignored.
Truncate(c) ==
  /\ p[c].at = "truncate"
  /\ LET a == SetFileSize(files, Uid[c], p[c].fid, 0)
     IN  files' = a.files /\ gone' = Empties(a, p[c].fid)
  /\ p' = [p EXCEPT ![c] = Idle]
  /\ UNCHANGED <<queue, srv, calls, parted>>

\* (a bug: the entry stays)
DeleteFileOnly(c) ==
  /\ p[c].at = "delete"
  /\ files' = DeleteFile(files, Uid[c], p[c].fid).files
  /\ p' = [p EXCEPT ![c] = Idle]
  /\ UNCHANGED <<queue, srv, calls, history>>

\* remove(): file_delete(), whose failure is ignored, before the request to remove the entry.
\* Since the lookup the number may have become that of another file.
Delete(c) ==
  /\ p[c].at = "delete"
  /\ LET q == p[c]
         a == DeleteFile(files, Uid[c], q.fid)
         r == Request(c, "remove", q.dir, LastName(q), q.fid)
         others == {t \in (Named \ {Triple(r)}) \cup Planned : t[3] = q.fid}
     IN  /\ files' = a.files
         /\ p' = [p EXCEPT ![c] = Asking(q, r)]
         /\ parted' = IF a.ok THEN parted \cup others ELSE parted
         /\ gone' = Empties(a, q.fid)
  /\ UNCHANGED <<queue, srv, calls>>

\* proc_term(), in the middle of a call; a request that was sent stays.
Kill(c) ==
  /\ c \in Killable
  /\ p[c].at \notin {"idle", "exited"}
  /\ p' = [p EXCEPT ![c] = [at |-> "exited"]]
  /\ parted' = IF p[c].at = "ask" /\ p[c].ask.op = "remove" THEN parted \cup {Triple(p[c].ask)}
               ELSE parted
  /\ UNCHANGED <<files, queue, srv, calls, gone>>

Server == Receive \/ Stat \/ ReadPage \/ StoreEntry \/ Reply

Steps(c) == Send(c) \/ Create(c) \/ Dots(c) \/ Truncate(c) \/ Delete(c)

Next ==
  \/ \E c \in Clients : \E call \in Calls[c] : Call(c, call.op, call.path)
  \/ \E c \in Clients : Steps(c) \/ Kill(c)
  \/ Server

Spec == Init /\ [][Next]_vars
FairSpec == Spec /\ WF_vars(Server) /\ \A c \in Clients : WF_vars(Steps(c))

-----------------------------------------------------------------------------
(* Properties.                                                              *)

TypeOK ==
  /\ files \in [FileNo -> [alloc : BOOLEAN, uid : Range(Uid) \cup {RootUid, 0} \cup {h.uid : h \in Range(Homes)},
                           mode : {{}, DefaultMode}, cells : Seq({Garbage} \cup [name : Names \cup DirNames \cup {Self, Parent, ""},
                                                         fid : FileNo \cup {0}])]]
  /\ \A c \in Clients :
       /\ p[c].at \in {"idle", "ask", "wait", "create", "dots", "truncate", "delete", "exited"}
       /\ p[c].at = "wait" =>
            Cardinality({i \in DOMAIN queue : queue[i] = p[c].ask})
            + (IF srv.at = "idle" THEN 0 ELSE IF srv.req = p[c].ask THEN 1 ELSE 0) = 1

\* The server does what a name space does (NameSpace): of two that insert a name at the same time
\* one is refused, whatever page the free entry is on, and an entry that was there stays
\* (dirsvr.c:102-262).  Only of a directory that a program has deleted or emptied, maybe while the
\* server was in the middle of it, nothing is promised any more.
IsNameSpace == INSTANCE NameSpace WITH
  names  <- Triples,
  answer <- IF srv.at = "respond" /\ srv.status
            THEN [ok |-> TRUE, op |-> srv.req.op, dir |-> srv.req.dir, name |-> srv.req.name,
                  fid |-> srv.fid]
            ELSE [ok |-> FALSE],
  Installed <- {<<Root, e.name, e.fid>> : e \in Range(HomeEntries)},
  Names  <- Names \cup DirNames,
  Fids   <- FileNo
RefinesNameSpace == IsNameSpace!Spec

\* A lookup is only refused if the user may not read the directory or the name is not in it, an
\* insertion if he may not write it or the name is, when that is found out, however many pages
\* the directory has (dirsvr.c:33-262).
RefusalsAreTrue ==
  [][srv.at # "respond" /\ srv'.at = "respond" /\ ~srv'.status =>
       LET r     == srv'.req
           there == \E f \in FileNo : <<r.dir, r.name, f>> \in Triples
       IN  \/ r.name \in TooLong
           \/ ~files[r.dir].alloc
           \/ ~Permitted(r, files[r.dir]) /\ r.uid # 0
           \/ r.op = "lookup" /\ ~there
           \/ r.op = "insert" /\ there]_vars

\* Every entry with a name is of a file that exists, except while the program that has deleted the file is
\* about to remove the entry (remove() deletes first, stdio.c:622-633), and for good if the
\* program could not, because it was killed in between or may not write the directory, or if it
\* deleted by a number that it had looked up and that stood for another file by then.
Removing ==
  {Triple(r) : r \in Underway("remove")
                     \cup {q \in {p[c].ask : c \in {d \in Clients : p[d].at = "ask"}} : q.op = "remove"}}
EntriesAreFiles ==
  \A t \in Named : files[t[3]].alloc \/ t \in Removing \cup parted

\* A call of fopen(), remove() or mkdir() returns (or the program ends).
CallsReturn ==
  \A c \in Clients : p[c].at \notin {"idle", "exited"} ~> p[c].at \in {"idle", "exited"}
=============================================================================
