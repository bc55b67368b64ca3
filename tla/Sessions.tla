------------------------------ MODULE Sessions ------------------------------
(***************************************************************************)
(* What runs on the kernel and its servers: init, which installs the file    *)
(* system once and starts the others at every boot (src/apps/init.c), the    *)
(* sync server, the password server (pwdsvr.c), login, the shell and the     *)
(* programs it runs, passwd among them.  The machine may stop at any time.   *)
(*                                                                         *)
(* A process runs from one call that others can notice to the next.  Calls   *)
(* of the file, directory and spawn servers are single steps here; so are     *)
(* reading a small file and writing it, each being one call.  What was       *)
(* written but not synced may or may not be there after a stop; of /tmp.dir,  *)
(* which init makes anew at every boot, that is always said.                 *)
(*                                                                         *)
(* A line of the terminal goes to the first reader in the queue of the       *)
(* terminal server, who may be dead by then.  Pids are taken from finite     *)
(* sets: one is used again only when nothing refers to it any more.          *)
(***************************************************************************)
EXTENDS Integers, Sequences, SequencesExt

CONSTANTS
  Table,      \* fs_table, the entries in the order in which they are installed
  Parent,     \* the directory of each
  Directories,\* the entries that are directories
  Pwds,       \* passwords that are compared with those in the file
  Initial,    \* the password in /etc/passwd of the host
  Master,     \* the one that pwdcmp() takes for that of any user
  Empty,      \* what a password file without lines has
  Jobs,       \* bound: pids of programs that the shell runs
  ShellPids   \* bound: pids of shells

Root    == "root"
Passwd  == "etc_passwd"              \* /etc/passwd
Entries == {Root} \cup ToSet(Table)
None    == "none"

ASSUME TableAssumption ==
  /\ Table \in Seq(STRING)
  /\ Root \notin ToSet(Table) /\ IsInjective(Table) /\ Directories \subseteq ToSet(Table)
  /\ \A n \in DOMAIN Table :
       Parent[Table[n]] \in {Root} \cup (Directories \cap {Table[m] : m \in 1..(n - 1)})
ASSUME PasswordAssumption == {Initial, Master} \subseteq Pwds /\ Empty \notin Pwds
ASSUME PidAssumption == None \notin Jobs \cup ShellPids /\ Jobs \cap ShellPids = {}

VARIABLES
  disk,     \* the files: the entries there are, the line of /etc/passwd, whose /tmp.dir
            \* there is: of this boot ("new"), of an earlier one ("old"), or none
  stable,   \* what surely survives a stop: entries, and the lines there may be after it
  init,     \* where init is
  next,     \* the entry of the table that it installs next
  servers,  \* the sync server and the password server, if they run
  login,    \* where login is, the password typed, the pid it waits for
  ended,    \* login's events
  shell,    \* the shell: its pid, where it is, procs, its events, and the job and whether
            \* it is one for the foreground; None if there is none
  jobs,     \* the programs it has run
  asks,     \* requests that wait for the password server
  pwdsvr,   \* where it is, and the request it handles
  echo,     \* the terminal server: FILE_ECHO
  reads,    \* the terminal server: who reads, first first
  valid,    \* history: the passwords that may be the user's
  torn,     \* history: a stop hit a password file that was not synced, or not yet written
  cut,      \* history: a stop hit the installation
  stuck     \* history: a passwd was killed while it asked for passwords

files     == <<disk, stable>>
booting   == <<init, next, servers>>
terminal  == <<echo, reads>>
passwords == <<asks, pwdsvr>>
history   == <<valid, torn, cut, stuck>>
vars == <<files, booting, login, ended, shell, jobs, passwords, terminal, history>>

Off     == [pc |-> "off", typed |-> None, pid |-> None]
NoJob   == [kind |-> None, owner |-> None, fg |-> FALSE, pc |-> "dead", old |-> None, new |-> None]
NoShell == [pid |-> None, pc |-> "dead", job |-> None, fg |-> FALSE, procs |-> {}, events |-> <<>>]
NoReq   == [src |-> None, old |-> None, new |-> None]
Idle    == [pc |-> "idle", req |-> NoReq]
Live(j) == jobs[j] # NoJob
Running == shell # NoShell

-----------------------------------------------------------------------------
(* The disk.                                                                *)

Installs(e) ==
  /\ disk' = [disk EXCEPT !.entries = @ \cup {e}, !.passwd = IF e = Passwd THEN Initial ELSE @]
  /\ stable' = [stable EXCEPT !.passwd = IF e = Passwd THEN {Empty, Initial} ELSE @]

\* fopen("/etc/passwd", "w") truncates it, fclose() writes it.
Store(line) ==
  /\ disk' = [disk EXCEPT !.passwd = line]
  /\ stable' = [stable EXCEPT !.passwd = @ \cup {line}]

SetTmp(t) == disk' = [disk EXCEPT !.tmp = t] /\ UNCHANGED stable

Synced == [entries |-> disk.entries, passwd |-> {disk.passwd}]

\* All of S can be found from the root.
Rooted(S) == \A e \in S \ {Root} : Parent[e] \in S

There(program) == program \in ToSet(Table) => program \in disk.entries

-----------------------------------------------------------------------------
Start ==
  /\ init = "start" /\ next = 1 /\ servers = {}
  /\ login = Off /\ ended = <<>> /\ shell = NoShell /\ jobs = [j \in Jobs |-> NoJob]
  /\ asks = <<>> /\ pwdsvr = Idle /\ echo = FALSE /\ reads = <<>>

Init ==
  /\ disk = [entries |-> {}, passwd |-> Empty, tmp |-> None]
  /\ stable = [entries |-> {}, passwd |-> {Empty}]
  /\ Start
  /\ valid = {Initial} /\ torn = FALSE /\ cut = FALSE /\ stuck = FALSE

(* init.                                                                    *)

\* Is file 1 there?  If not it creates it, the root directory.
LookForRoot ==
  /\ init = "start"
  /\ IF Root \in disk.entries
     THEN init' = "remove tmp" /\ UNCHANGED <<files, valid, torn, cut>>
     ELSE init' = "install" /\ Installs(Root) /\ valid' = {Initial} /\ torn' = FALSE /\ cut' = FALSE
  /\ UNCHANGED <<next, servers, login, ended, shell, jobs, passwords, terminal, stuck>>

\* dir_install(), file_install(): the parent has been put in dirtree before.
Install ==
  /\ init = "install" /\ next <= Len(Table)
  /\ Installs(Table[next]) /\ next' = next + 1
  /\ UNCHANGED <<init, servers, login, ended, shell, jobs, passwords, terminal, history>>

\* A file that the gate server cannot read: init gives up, it exits.
PullFails ==
  /\ init = "install" /\ next <= Len(Table) /\ Table[next] \notin Directories
  /\ init' = "gone"
  /\ UNCHANGED <<files, next, servers, login, ended, shell, jobs, passwords, terminal, history>>

\* (a bug: the installation is not synced)
NotSynced ==
  /\ init = "install" /\ next > Len(Table)
  /\ init' = "remove tmp"
  /\ UNCHANGED <<files, next, servers, login, ended, shell, jobs, passwords, terminal, history>>

\* fflushsync(0)
SyncInstalled ==
  /\ init = "install" /\ next > Len(Table)
  /\ init' = "remove tmp" /\ stable' = Synced
  /\ UNCHANGED <<disk, next, servers, login, ended, shell, jobs, passwords, terminal, history>>

\* What an earlier boot called /tmp was in its RAM.
RemoveTmp ==
  /\ init = "remove tmp"
  /\ init' = "create tmp"
  /\ IF disk.tmp = None THEN UNCHANGED files ELSE SetTmp(None)
  /\ UNCHANGED <<next, servers, login, ended, shell, jobs, passwords, terminal, history>>

CreateTmp ==
  /\ init = "create tmp"
  /\ init' = "syncsvr" /\ SetTmp("new")
  /\ UNCHANGED <<next, servers, login, ended, shell, jobs, passwords, terminal, history>>

\* spawn_vexec() for one server after the other; init ignores what it returns.
StartServer ==
  /\ init \in {"syncsvr", "pwdsvr"}
  /\ init' = IF init = "syncsvr" THEN "pwdsvr" ELSE "login"
  /\ servers' = IF There(init) THEN servers \cup {init} ELSE servers
  /\ UNCHANGED <<files, next, login, ended, shell, jobs, passwords, terminal, history>>

StartLogin ==
  /\ init = "login"
  /\ init' = "run"
  /\ login' = IF There("login") THEN [login EXCEPT !.pc = "prompt"] ELSE login
  /\ UNCHANGED <<files, next, servers, ended, shell, jobs, passwords, terminal, history>>

\* The sync server, every 30 seconds.
Sync ==
  /\ "syncsvr" \in servers
  /\ stable' = Synced
  /\ UNCHANGED <<disk, booting, login, ended, shell, jobs, passwords, terminal, history>>

-----------------------------------------------------------------------------
(* login.                                                                   *)

\* r asks the terminal server for a line.
Ask(r) == reads' = Append(reads, r)

\* The next line is for r.
Next1(r) == reads # <<>> /\ Head(reads) = r

LoginPrompts ==
  /\ login.pc = "prompt"
  /\ login' = [login EXCEPT !.pc = "name"]
  /\ echo' = TRUE /\ stuck' = FALSE /\ Ask("login")
  /\ UNCHANGED <<files, booting, ended, shell, jobs, passwords, valid, torn, cut>>

\* A name is typed, or <ctrl>D, or nothing.
LoginName ==
  /\ login.pc = "name" /\ Next1("login")
  /\ \/ /\ login' = [login EXCEPT !.pc = "password"]
        /\ echo' = FALSE /\ reads' = Append(Tail(reads), "login")
     \/ /\ login' = [login EXCEPT !.pc = "prompt"]
        /\ reads' = Tail(reads) /\ UNCHANGED echo
  /\ UNCHANGED <<files, booting, ended, shell, jobs, passwords, history>>

LoginPassword ==
  /\ login.pc = "password" /\ Next1("login")
  /\ \/ \E p \in Pwds : login' = [login EXCEPT !.pc = "check", !.typed = p]
     \/ login' = [login EXCEPT !.pc = "prompt"]
  /\ reads' = Tail(reads)
  /\ UNCHANGED <<files, booting, ended, shell, jobs, passwords, echo, history>>

\* pwdcmp(), for the password in a line of the file; without that line there is no user.
Accepts(line, pwd) == line # Empty /\ pwd \in {line, Master}

\* login(): without a password file there is a shell for the superuser.
Refused == Passwd \in disk.entries /\ ~Accepts(disk.passwd, login.typed)

LoginChecks ==
  /\ login.pc = "check"
  /\ login' = [login EXCEPT !.pc = IF Refused THEN "prompt" ELSE "shell", !.typed = None]
  /\ UNCHANGED <<files, booting, ended, shell, jobs, passwords, terminal, history>>

FreeShellPids == ShellPids \ {jobs[j].owner : j \in Jobs}
NewShellPid   == CHOOSE s \in FreeShellPids : TRUE

\* shell(): what spawn_vexec() returns is ignored, and if it has failed the pid to wait for
\* is what was on the stack: no process that login will hear of.
LoginRunsShell ==
  /\ login.pc = "shell" /\ FreeShellPids # {}
  /\ echo' = TRUE /\ stuck' = FALSE
  /\ IF There("shell")
     THEN /\ login' = [login EXCEPT !.pc = "wait", !.pid = NewShellPid]
          /\ shell' = [NoShell EXCEPT !.pid = NewShellPid, !.pc = "prompt"]
     ELSE login' = [login EXCEPT !.pc = "wait", !.pid = None] /\ UNCHANGED shell
  /\ UNCHANGED <<files, booting, ended, jobs, passwords, reads, valid, torn, cut>>

LoginWaits ==
  /\ login.pc = "wait" /\ ended # <<>>
  /\ login' = IF Head(ended) = login.pid THEN [login EXCEPT !.pc = "prompt", !.pid = None]
              ELSE login
  /\ ended' = Tail(ended)
  /\ UNCHANGED <<files, booting, shell, jobs, passwords, terminal, history>>

-----------------------------------------------------------------------------
(* The shell.                                                               *)

ShellPrompts ==
  /\ Running /\ shell.pc = "prompt"
  /\ shell' = [shell EXCEPT !.pc = "read"]
  /\ Ask(shell.pid)
  /\ UNCHANGED <<files, booting, login, ended, jobs, passwords, echo, history>>

\* A line for the shell.
Gets == Running /\ shell.pc = "read" /\ Next1(shell.pid) /\ reads' = Tail(reads)

\* "exit", or <ctrl>D: login gets an event.
ShellExits ==
  /\ Gets
  /\ shell' = NoShell /\ ended' = Append(ended, shell.pid)
  /\ UNCHANGED <<files, booting, login, jobs, passwords, echo, history>>

\* (a bug: it waits for a pid whether or not it knows it)
ShellWaitsForAny ==
  /\ Gets
  /\ \E j \in Jobs \cup {None} : shell' = [shell EXCEPT !.pc = "wait", !.job = j]
  /\ UNCHANGED <<files, booting, login, ended, jobs, passwords, echo, history>>

\* "wait" and "wait j": for a process it does not know there is only a message.
ShellWaitsFor ==
  /\ Gets
  /\ \E j \in Jobs \cup {None} :
       shell' = IF j \in shell.procs \cup {None} THEN [shell EXCEPT !.pc = "wait", !.job = j]
                ELSE [shell EXCEPT !.pc = "prompt"]
  /\ UNCHANGED <<files, booting, login, ended, jobs, passwords, echo, history>>

\* Pids that nothing refers to any more.
Unused ==
  {j \in Jobs : ~Live(j)} \ (shell.procs \cup ToSet(shell.events) \cup ToSet(reads)
                               \cup {r.src : r \in ToSet(asks) \cup {pwdsvr.req}})

\* spawn_do_exec() creates the process before it answers.
SpawnExec(j, kind, fg) ==
  jobs' = [jobs EXCEPT ![j] = [NoJob EXCEPT !.kind = kind, !.owner = shell.pid, !.fg = fg,
                                            !.pc = "start"]]

\* path_exec(): a program that is not there is not run.
ShellRuns ==
  /\ Gets
  /\ \E kind \in {"passwd", "work"}, fg \in BOOLEAN :
       IF There(kind)
       THEN LET j == CHOOSE i \in Unused : TRUE IN
              /\ Unused # {}
              /\ SpawnExec(j, kind, fg)
              /\ shell' = [shell EXCEPT !.pc = "started", !.job = j, !.fg = fg]
       ELSE shell' = [shell EXCEPT !.pc = "prompt"] /\ UNCHANGED jobs
  /\ UNCHANGED <<files, booting, login, ended, passwords, echo, history>>

\* It adds the pid to procs, and for a job in the foreground waits for it.
ShellEnlists ==
  /\ Running /\ shell.pc = "started"
  /\ shell' = [shell EXCEPT !.procs = @ \cup {shell.job}, !.fg = FALSE,
                            !.pc = IF shell.fg THEN "wait" ELSE "prompt",
                            !.job = IF shell.fg THEN @ ELSE None]
  /\ UNCHANGED <<files, booting, login, ended, jobs, passwords, terminal, history>>

WaitsForNone == shell.job = None /\ shell.procs = {}

\* wait(): one event after the other, until that of the process it is about, or until
\* procs is empty if it is about all.
ShellWait ==
  /\ Running /\ shell.pc = "wait" /\ (WaitsForNone \/ shell.events # <<>>)
  /\ shell' = IF WaitsForNone THEN [shell EXCEPT !.pc = "prompt"]
              ELSE LET e == Head(shell.events)
                   IN  [shell EXCEPT !.procs = @ \ {e}, !.events = Tail(@),
                                     !.pc = IF e = shell.job THEN "prompt" ELSE "wait",
                                     !.job = IF e = shell.job THEN None ELSE @]
  /\ UNCHANGED <<files, booting, login, ended, jobs, passwords, terminal, history>>

-----------------------------------------------------------------------------
(* Programs.                                                                *)

At(j, pc) == Live(j) /\ jobs[j].pc = pc
Goto(j, pc) == jobs' = [jobs EXCEPT ![j].pc = pc] /\ UNCHANGED shell

\* proc_term(): the owner gets an event, if there is one.
Ends(j) ==
  /\ jobs' = [jobs EXCEPT ![j] = NoJob]
  /\ shell' = IF Running /\ shell.pid = jobs[j].owner
              THEN [shell EXCEPT !.events = Append(@, j)] ELSE shell

\* One that computes may end at any time.
Finish(j) ==
  /\ At(j, "start") /\ jobs[j].kind = "work"
  /\ Ends(j)
  /\ UNCHANGED <<files, booting, login, ended, passwords, terminal, history>>

\* passwd.  In the background its standard input is stdnull, which cannot be read.
PasswdStarts(j) ==
  /\ At(j, "start") /\ jobs[j].kind = "passwd"
  /\ echo' = TRUE /\ stuck' = FALSE
  /\ IF jobs[j].fg THEN Goto(j, "name") /\ Ask(j) ELSE Ends(j) /\ UNCHANGED reads
  /\ UNCHANGED <<files, booting, login, ended, passwords, valid, torn, cut>>

\* It has the line it has asked for, and asks for another.
PasswdName(j) ==
  /\ At(j, "name") /\ Next1(j)
  /\ Goto(j, "old") /\ reads' = Append(Tail(reads), j) /\ echo' = FALSE
  /\ UNCHANGED <<files, booting, login, ended, passwords, history>>

PasswdOld(j) ==
  /\ At(j, "old") /\ Next1(j)
  /\ \E p \in Pwds : jobs' = [jobs EXCEPT ![j].pc = "new", ![j].old = p]
  /\ reads' = Append(Tail(reads), j)
  /\ UNCHANGED <<files, booting, login, ended, shell, passwords, echo, history>>

PasswdNew(j) ==
  /\ At(j, "new") /\ Next1(j)
  /\ \E p \in Pwds : jobs' = [jobs EXCEPT ![j].pc = "again", ![j].new = p]
  /\ reads' = Append(Tail(reads), j)
  /\ UNCHANGED <<files, booting, login, ended, shell, passwords, echo, history>>

AskChange(j) == asks' = Append(asks, [src |-> j, old |-> jobs[j].old, new |-> jobs[j].new])

\* The new password again: it asks the password server for the change, if there is one.
PasswdAgain(j) ==
  /\ At(j, "again") /\ Next1(j)
  /\ reads' = Tail(reads) /\ echo' = TRUE /\ stuck' = FALSE
  /\ IF "pwdsvr" \in servers
     THEN AskChange(j) /\ Goto(j, "rpc")
     ELSE Ends(j) /\ UNCHANGED asks
  /\ UNCHANGED <<files, booting, login, ended, pwdsvr, valid, torn, cut>>

\* (a bug: <ctrl>D leaves the terminal without echo)
PasswdGivesUpSilently(j) ==
  /\ Live(j) /\ jobs[j].pc \in {"name", "old", "new", "again"} /\ Next1(j)
  /\ reads' = Tail(reads) /\ Ends(j)
  /\ UNCHANGED <<files, booting, login, ended, passwords, echo, history>>

\* <ctrl>D, or another password the second time.
PasswdGivesUp(j) ==
  /\ Live(j) /\ jobs[j].pc \in {"name", "old", "new", "again"} /\ Next1(j)
  /\ reads' = Tail(reads) /\ Ends(j)
  /\ echo' = TRUE
  /\ UNCHANGED <<files, booting, login, ended, passwords, history>>

\* A line for a process that is dead.
LineLost ==
  /\ reads # <<>> /\ Head(reads) \in Jobs /\ ~Live(Head(reads))
  /\ reads' = Tail(reads)
  /\ UNCHANGED <<files, booting, login, ended, shell, jobs, passwords, echo, history>>

\* <ctrl>C kills the job in the foreground.  Of a change of the password that it has asked
\* for the user does not hear.
Interrupt ==
  /\ \E j \in Jobs :
       /\ Live(j) /\ jobs[j].fg
       /\ Ends(j)
       /\ valid' = IF At(j, "rpc") THEN valid \cup {jobs[j].new} ELSE valid
       /\ stuck' = (stuck \/ jobs[j].pc \in {"old", "new", "again"})
  /\ UNCHANGED <<files, booting, login, ended, passwords, terminal, torn, cut>>

-----------------------------------------------------------------------------
(* The password server.                                                     *)

\* pwdsvr_respond(): the client, if it is alive, goes on, and tells the user.
Respond(req, ok) ==
  /\ IF At(req.src, "rpc") THEN Ends(req.src) ELSE UNCHANGED <<jobs, shell>>
  /\ valid' = IF At(req.src, "rpc") /\ ok THEN {req.new} ELSE valid

\* The user's line of the file has the old password.
Matches(req) == Passwd \in disk.entries /\ Accepts(disk.passwd, req.old)

\* (a bug: the answer goes out before the file is opened for writing)
MatchAnswers ==
  /\ pwdsvr.pc = "idle" /\ asks # <<>>
  /\ asks' = Tail(asks)
  /\ IF Matches(Head(asks))
     THEN pwdsvr' = [pc |-> "open", req |-> Head(asks)] /\ Respond(Head(asks), TRUE)
     ELSE Respond(Head(asks), FALSE) /\ UNCHANGED pwdsvr
  /\ UNCHANGED <<files, booting, login, ended, terminal, torn, cut, stuck>>

\* It reads the whole file.
Match ==
  /\ pwdsvr.pc = "idle" /\ asks # <<>>
  /\ asks' = Tail(asks)
  /\ IF Matches(Head(asks))
     THEN pwdsvr' = [pc |-> "open", req |-> Head(asks)] /\ UNCHANGED <<jobs, shell, valid>>
     ELSE Respond(Head(asks), FALSE) /\ UNCHANGED pwdsvr
  /\ UNCHANGED <<files, booting, login, ended, terminal, torn, cut, stuck>>

Open ==
  /\ pwdsvr.pc = "open"
  /\ pwdsvr' = [pwdsvr EXCEPT !.pc = "write"]
  /\ Store(Empty)
  /\ UNCHANGED <<booting, login, ended, shell, jobs, asks, terminal, history>>

Write ==
  /\ pwdsvr.pc = "write"
  /\ Store(pwdsvr.req.new)
  /\ pwdsvr' = Idle /\ Respond(pwdsvr.req, TRUE)
  /\ UNCHANGED <<booting, login, ended, asks, terminal, torn, cut, stuck>>

-----------------------------------------------------------------------------
\* The machine stops and boots again.  Of what was not synced some is there.
Stop ==
  /\ \E lost \in SUBSET (disk.entries \ stable.entries),
        line \in stable.passwd, tmp \in {"old", None} :
       LET found == disk.entries \ lost
       IN  /\ Rooted(found)
           /\ tmp = "old" => Root \in found /\ disk.tmp # None
           /\ disk' = [entries |-> found, passwd |-> line, tmp |-> tmp]
           /\ stable' = [entries |-> found, passwd |-> {line}]
  /\ init' = "start" /\ next' = 1 /\ servers' = {}
  /\ login' = Off /\ ended' = <<>> /\ shell' = NoShell /\ jobs' = [j \in Jobs |-> NoJob]
  /\ asks' = <<>> /\ pwdsvr' = Idle /\ echo' = FALSE /\ reads' = <<>>
  /\ valid' = valid \cup {jobs[j].new : j \in {i \in Jobs : At(i, "rpc")}}
  /\ torn' = (torn \/ stable.passwd # {disk.passwd} \/ pwdsvr.pc = "write")
  /\ cut' = (cut \/ init \in {"install", "gone"})
  /\ stuck' = FALSE

InitSteps  == LookForRoot \/ Install \/ PullFails \/ SyncInstalled \/ RemoveTmp \/ CreateTmp \/ StartServer
                \/ StartLogin
LoginSteps == LoginPrompts \/ LoginChecks \/ LoginRunsShell \/ LoginWaits
ShellSteps == ShellPrompts \/ ShellEnlists \/ ShellWait
Typing     == LoginName \/ LoginPassword \/ ShellExits \/ ShellWaitsFor \/ ShellRuns \/ LineLost
PwdSvr     == Match \/ Open \/ Write

Next ==
  \/ InitSteps \/ LoginSteps \/ ShellSteps \/ Typing \/ PwdSvr
  \/ Sync \/ Interrupt \/ Stop
  \/ \E j \in Jobs : \/ Finish(j) \/ PasswdStarts(j) \/ PasswdName(j) \/ PasswdOld(j)
                     \/ PasswdNew(j) \/ PasswdAgain(j) \/ PasswdGivesUp(j)

Spec == Init /\ [][Next]_vars

\* Every process gets the processor again and again.  Nobody has to type anything, and a
\* program may run for ever.
Fairness ==
  /\ WF_vars(InitSteps) /\ WF_vars(LoginSteps) /\ WF_vars(ShellSteps) /\ WF_vars(PwdSvr)
  /\ \A j \in Jobs : WF_vars(PasswdStarts(j))
FairSpec == Spec /\ Fairness

-----------------------------------------------------------------------------
(* Properties.                                                              *)

\* When a user can log in, /tmp is one of this boot, and unless a stop, or a file that could
\* not be pulled, has cut the installation short, everything is there (init.c:253-297).
Installed ==
  login.pc # "off" => disk.tmp = "new" /\ (cut \/ disk.entries = Entries)

\* The terminal is without echo only while login or passwd ask for a password, or because a
\* passwd was killed when it did (login.c:152-171, passwd.c:63-84).
EchoRestored ==
  login.pc \in {"name", "wait"} /\ ~echo =>
    stuck \/ \E j \in Jobs : Live(j) /\ jobs[j].pc \in {"old", "new", "again"}

\* login refuses the password that the user was told is the one only while the password
\* server has truncated the file, or after a stop that hit a file which was not synced
\* or had only been truncated (pwdsvr.c:172-187).
PasswordKept ==
  [][login.pc = "check" /\ login'.pc = "prompt" /\ valid = {login.typed}
       => torn \/ pwdsvr.pc = "write"]_vars

\* A shell that waits for what has ended prompts again, passwd hears from the password
\* server, and login prompts when the shell it has started has ended.
WaitsForEnded ==
  Running /\ shell.pc = "wait"
    /\ IF shell.job = None THEN \A j \in Jobs : Live(j) => jobs[j].owner # shell.pid
       ELSE ~Live(shell.job)

PromptsReturn ==
  /\ WaitsForEnded ~> (~Running \/ shell.pc = "read")
  /\ \A j \in Jobs : At(j, "rpc") ~> ~Live(j)
  /\ (login.pc = "wait" /\ login.pid # None /\ ~Running) ~> (login.pc \in {"name", "off"})
=============================================================================
