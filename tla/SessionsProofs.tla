---------------------------- MODULE SessionsProofs ----------------------------
(* What init, login, the shell, passwd and the password server do together: *)
(* the installation, the echo of the terminal and the password.             *)
EXTENDS Sessions, WellFoundedInduction, FiniteSetTheorems, TLAPS, SequenceTheorems

-----------------------------------------------------------------------------
(* Sets of natural numbers.                                                *)

\* A nonempty set of natural numbers has a least element: a loop that looks for
\* the first of something finds it, if it is there.
LEMMA Least ==
  ASSUME NEW S \in SUBSET Nat, S # {}
  PROVE  \E x \in S : \A y \in S : x <= y
<1>1. PICK x \in S : \A y \in S : ~(<<y, x>> \in OpToRel(<, Nat))
  BY NatLessThanWellFounded, WFMin, Zenon
<1>2. \A y \in S : ~(y < x)
  BY <1>1 DEF OpToRel
<1> QED
  BY <1>2

-----------------------------------------------------------------------------
(* The inductive invariant.                                                 *)

Program == {"passwd", "work"}
AskingPcs == {"name", "old", "new", "again", "rpc"}
Pids    == Jobs \cup ShellPids \cup {None}
JobType ==
  [kind : Program, owner : ShellPids, fg : BOOLEAN, pc : {"start"} \cup AskingPcs,
   old : Pwds \cup {None}, new : Pwds \cup {None}]
ShellType ==
  [pid : ShellPids \cup {None}, pc : {"dead", "prompt", "read", "wait", "started"},
   job : Jobs \cup {None}, fg : BOOLEAN, procs : SUBSET Jobs, events : Seq(Jobs)]
LoginType ==
  [pc : {"off", "prompt", "name", "password", "check", "shell", "wait"},
   typed : Pwds \cup {None}, pid : ShellPids \cup {None}]
Request == [src : Jobs, old : Pwds, new : Pwds]
Line    == Pwds \cup {Empty}

\* What a job holds by the time it asks the password server.
JobOK(j) ==
  /\ jobs[j].pc \in AskingPcs => jobs[j].fg
  /\ jobs[j].pc \in {"new", "again", "rpc"} => jobs[j].old \in Pwds
  /\ jobs[j].pc \in {"again", "rpc"} => jobs[j].new \in Pwds

Types ==
  /\ disk \in [entries : SUBSET Entries, passwd : Line, tmp : {"new", "old", None}]
  /\ stable \in [entries : SUBSET Entries, passwd : SUBSET Line]
  /\ init \in {"start", "install", "gone", "remove tmp", "create tmp", "syncsvr", "pwdsvr", "login",
               "run"}
  /\ next \in 1..(Len(Table) + 1)
  /\ login \in LoginType
  /\ ended \in Seq(ShellPids)
  /\ shell \in ShellType
  /\ Running => shell.pid \in ShellPids
  /\ shell.pc = "started" => shell.job \in Jobs
  /\ jobs \in [Jobs -> JobType \cup {NoJob}]
  /\ \A j \in Jobs : JobOK(j)
  /\ asks \in Seq(Request)
  /\ \/ pwdsvr = Idle
     \/ pwdsvr \in [pc : {"open", "write"}, req : Request]
  /\ echo \in BOOLEAN /\ valid \in SUBSET Pwds
  /\ torn \in BOOLEAN /\ cut \in BOOLEAN /\ stuck \in BOOLEAN

\* Until init has started them nothing else runs.
Quiet ==
  init # "run" =>
    /\ login = Off /\ ended = <<>> /\ shell = NoShell /\ (\A j \in Jobs : ~Live(j))
    /\ asks = <<>> /\ pwdsvr = Idle

\* Everything is installed, and synced, or a stop has cut the installation short.
Whole == cut \/ (disk.entries = Entries /\ stable.entries = Entries)

\* What init has done.
Boot ==
  /\ Rooted(disk.entries)
  /\ init = "start" => next = 1 /\ (Root \in disk.entries => Whole)
  /\ init = "install" =>
       /\ disk.entries = {Root} \cup {Table[n] : n \in 1..(next - 1)}
       /\ valid = {Initial}
  /\ init \notin {"start", "install", "gone"} => Whole
  /\ init \in {"syncsvr", "pwdsvr", "login", "run"} => disk.tmp = "new"

\* login waits for the one shell there is, or has its event to come.
OneShell ==
  /\ Running => login.pc = "wait" /\ ended = <<>>
  /\ Len(ended) <= 1
  /\ ended # <<>> => login.pc = "wait"

\* The shell waits for the job in the foreground, and has no event of it.
Foreground ==
  \A j \in Jobs : Live(j) /\ jobs[j].fg =>
    /\ shell.job = j
    /\ shell.pc = "wait" \/ (shell.pc = "started" /\ shell.fg)
    /\ \A i \in 1..Len(shell.events) : shell.events[i] # j

\* The job waits for the answer to r.
Waits(r) == At(r.src, "rpc") /\ jobs[r.src].new = r.new

\* A request whose job was killed: the user was told nothing, so its password may be the one.
Orphan(r) == ~Live(r.src) /\ r.new \in valid

\* A request of a job that is alive is the last.
Pending ==
  /\ pwdsvr.pc # "idle" => Orphan(pwdsvr.req) \/ (Waits(pwdsvr.req) /\ asks = <<>>)
  /\ \A i \in 1..Len(asks) : Orphan(asks[i]) \/ (Waits(asks[i]) /\ i = Len(asks))

\* The line of the file is one of the passwords that may be the user's.
FileOK == Passwd \in disk.entries /\ ~torn /\ pwdsvr.pc # "write" => disk.passwd \in valid


Inv == Types /\ Quiet /\ Boot /\ OneShell /\ Foreground /\ Pending /\ FileOK

-----------------------------------------------------------------------------
(* Processes that end.                                                      *)

LEMMA LiveIs ==
  ASSUME Types, NEW j \in Jobs, Live(j)
  PROVE  jobs[j] \in JobType
BY DEF Types, Live

\* The event of j is all that its end adds to the shell.
LEMMA EndsIs ==
  ASSUME Types, NEW j \in Jobs, Ends(j)
  PROVE  /\ jobs' \in [Jobs -> JobType \cup {NoJob}]
         /\ jobs'[j] = NoJob /\ \A i \in Jobs : i # j => jobs'[i] = jobs[i]
         /\ shell' \in ShellType
         /\ shell'.pid = shell.pid /\ shell'.pc = shell.pc /\ shell'.job = shell.job
         /\ shell'.fg = shell.fg
         /\ Running' => Running
         /\ Running' => shell'.pid \in ShellPids
         /\ \A e \in Jobs : e # j /\ (\A i \in 1..Len(shell.events) : shell.events[i] # e)
                              => \A i \in 1..Len(shell'.events) : shell'.events[i] # e
<1> DEFINE more == Append(shell.events, j)
<1>0. shell.events \in Seq(Jobs)
  BY DEF Types, ShellType
<1>1. /\ more \in Seq(Jobs) /\ Len(more) = Len(shell.events) + 1
      /\ \A i \in 1..Len(shell.events) : more[i] = shell.events[i]
      /\ more[Len(shell.events) + 1] = j
  BY <1>0, AppendProperties
<1>2. shell' = shell \/ (Running /\ shell' = [shell EXCEPT !.events = more])
  BY DEF Ends
<1> HIDE DEF more
<1>3. jobs' = [jobs EXCEPT ![j] = NoJob] /\ jobs \in [Jobs -> JobType \cup {NoJob}]
  BY DEF Ends, Types
<1>4. /\ jobs' \in [Jobs -> JobType \cup {NoJob}]
      /\ jobs'[j] = NoJob /\ \A i \in Jobs : i # j => jobs'[i] = jobs[i]
  BY <1>3
<1>5. /\ shell \in ShellType
      /\ Running => shell.pid \in ShellPids
  BY DEF Types
<1>6. CASE shell' = shell
  BY <1>4, <1>5, <1>6 DEF Running
<1>7. CASE Running /\ shell' = [shell EXCEPT !.events = more]
  <2>1. /\ shell' \in ShellType
        /\ shell'.pid = shell.pid /\ shell'.pc = shell.pc /\ shell'.job = shell.job
        /\ shell'.fg = shell.fg /\ shell'.events = more
    BY <1>1, <1>5, <1>7 DEF ShellType
  <2>2. \A i \in 1..Len(more) : i \in 1..Len(shell.events) \/ i = Len(shell.events) + 1
    BY <1>1
  <2> QED
    BY <1>1, <1>4, <1>5, <1>7, <2>1, <2>2
<1> QED
  BY <1>2, <1>6, <1>7

-----------------------------------------------------------------------------
(* Types.                                                                   *)

LEMMA TableIs ==
  /\ Len(Table) \in Nat /\ \A n \in 1..Len(Table) : Table[n] \in Entries
  /\ \A e \in Entries \ {Root} : \E n \in 1..Len(Table) : e = Table[n]
  /\ Root \in Entries
<1>1. ToSet(Table) = {Table[n] : n \in 1..Len(Table)}
  BY TableAssumption DEF ToSet
<1> QED
  BY <1>1, TableAssumption DEF Entries

\* What init and the disk are made of.
DiskTypes ==
  /\ disk \in [entries : SUBSET Entries, passwd : Line, tmp : {"new", "old", None}]
  /\ stable \in [entries : SUBSET Entries, passwd : SUBSET Line]
InitTypes ==
  /\ init \in {"start", "install", "gone", "remove tmp", "create tmp", "syncsvr", "pwdsvr", "login",
               "run"}
  /\ next \in 1..(Len(Table) + 1)
LoginTypes == login \in LoginType /\ ended \in Seq(ShellPids)
ShellTypes ==
  /\ shell \in ShellType
  /\ Running => shell.pid \in ShellPids
  /\ shell.pc = "started" => shell.job \in Jobs
JobTypes   == jobs \in [Jobs -> JobType \cup {NoJob}] /\ \A j \in Jobs : JobOK(j)
ServerTypes ==
  /\ asks \in Seq(Request)
  /\ \/ pwdsvr = Idle
     \/ pwdsvr \in [pc : {"open", "write"}, req : Request]
FlagTypes ==
  /\ echo \in BOOLEAN /\ valid \in SUBSET Pwds
  /\ torn \in BOOLEAN /\ cut \in BOOLEAN /\ stuck \in BOOLEAN

LEMMA TypesAre ==
  Types <=> /\ DiskTypes /\ InitTypes /\ LoginTypes /\ ShellTypes /\ JobTypes /\ ServerTypes
            /\ FlagTypes
BY DEF Types, DiskTypes, InitTypes, LoginTypes, ShellTypes, JobTypes, ServerTypes, FlagTypes

LEMMA PasswordsAre == Initial \in Pwds /\ Initial \in Line /\ Empty \in Line /\ Pwds \subseteq Line
BY PasswordAssumption DEF Line

LEMMA DiskStep ==
  ASSUME Types, Next
  PROVE  DiskTypes'
<1> USE DEF DiskTypes
<1>1. DiskTypes
  BY TypesAre
<1>2. ASSUME NEW e \in Entries, Installs(e) PROVE DiskTypes'
  BY <1>1, <1>2, PasswordsAre DEF Installs
<1>3. ASSUME NEW l \in Line, Store(l) PROVE DiskTypes'
  BY <1>1, <1>3 DEF Store
<1>4. ASSUME NEW t \in {"new", "old", None}, SetTmp(t) PROVE DiskTypes'
  BY <1>1, <1>4 DEF SetTmp
<1>5. CASE InitSteps
  <2>1. CASE LookForRoot
    <3>1. UNCHANGED files \/ Installs(Root)
      BY <2>1 DEF LookForRoot
    <3>2. CASE UNCHANGED files
      BY <1>1, <3>2 DEF files
    <3> QED
      BY <1>2, <3>1, <3>2, TableIs
  <2>2. CASE Install
    <3>1. Table[next] \in Entries
      BY <2>2, TableIs DEF Install, Types
    <3> QED
      BY <1>2, <2>2, <3>1 DEF Install
  <2>3. CASE PullFails \/ SyncInstalled \/ StartServer \/ StartLogin
    <3>1. UNCHANGED files \/ (UNCHANGED disk /\ stable' = Synced)
      BY <2>3 DEF PullFails, SyncInstalled, StartServer, StartLogin, files
    <3> QED
      BY <1>1, <3>1 DEF files, Synced
  <2>4. CASE RemoveTmp \/ CreateTmp
    BY <1>1, <1>4, <2>4 DEF RemoveTmp, CreateTmp, files
  <2> QED
    BY <1>5, <2>1, <2>2, <2>3, <2>4 DEF InitSteps
<1>6. CASE LoginSteps \/ ShellSteps \/ Typing \/ Interrupt
  BY <1>1, <1>6 DEF LoginSteps, ShellSteps, Typing, Interrupt, LoginPrompts, LoginChecks, LoginRunsShell,
     LoginWaits, ShellPrompts, ShellEnlists, ShellWait, LoginName, LoginPassword, ShellExits,
     ShellWaitsFor, ShellRuns, LineLost, files
<1>7. CASE PwdSvr
  <2>1. CASE Match
    BY <1>1, <2>1 DEF Match, files
  <2>2. CASE Open
    BY <1>3, <2>2, PasswordsAre DEF Open
  <2>3. CASE Write
    <3>1. pwdsvr \in [pc : {"open", "write"}, req : Request]
      BY <2>3, TypesAre DEF Write, ServerTypes, Idle
    <3>2. pwdsvr.req.new \in Line
      BY <3>1, PasswordsAre DEF Request
    <3> QED
      BY <1>3, <2>3, <3>2 DEF Write
  <2> QED
    BY <1>7, <2>1, <2>2, <2>3 DEF PwdSvr
<1>8. CASE Sync
  BY <1>1, <1>8 DEF Sync, Synced
<1>9. CASE Stop
  <2>1. PICK lost \in SUBSET (disk.entries \ stable.entries), line \in stable.passwd, tmp \in {"old", None} :
          /\ disk' = [entries |-> disk.entries \ lost, passwd |-> line, tmp |-> tmp]
          /\ stable' = [entries |-> disk.entries \ lost, passwd |-> {line}]
    BY <1>9 DEF Stop
  <2>2. line \in Line /\ {line} \in SUBSET Line /\ disk.entries \ lost \in SUBSET Entries
    BY <1>1
  <2> QED
    BY <2>1, <2>2
<1>10. ASSUME NEW j \in Jobs,
              Finish(j) \/ PasswdStarts(j) \/ PasswdName(j) \/ PasswdOld(j) \/ PasswdNew(j)
                \/ PasswdAgain(j) \/ PasswdGivesUp(j)
       PROVE DiskTypes'
  BY <1>1, <1>10 DEF Finish, PasswdStarts, PasswdName, PasswdOld, PasswdNew, PasswdAgain,
     PasswdGivesUp, files
<1> QED
  BY <1>5, <1>6, <1>7, <1>8, <1>9, <1>10 DEF Next

LEMMA InitStep ==
  ASSUME Types, Next
  PROVE  InitTypes'
<1> USE DEF InitTypes
<1>1. InitTypes /\ Len(Table) \in Nat
  BY TypesAre, TableIs
<1>2. CASE InitSteps
  <2>1. /\ init' = init \/ init' \in {"install", "gone", "remove tmp", "create tmp", "syncsvr", "pwdsvr",
                                    "login", "run"}
        /\ next' = next \/ (next <= Len(Table) /\ next' = next + 1)
    <3>1. CASE LookForRoot
      BY <3>1, Zenon DEF LookForRoot
    <3>2. CASE Install \/ PullFails \/ SyncInstalled \/ RemoveTmp \/ CreateTmp \/ StartLogin
      BY <3>2, Zenon DEF Install, PullFails, SyncInstalled, RemoveTmp, CreateTmp, StartLogin
    <3>3. CASE StartServer
      <4>1. init' \in {"pwdsvr", "login"} /\ next' = next
        BY <3>3 DEF StartServer
      <4> QED
        BY <4>1
    <3> QED
      BY <1>2, <3>1, <3>2, <3>3 DEF InitSteps
  <2>2. PICK n \in Nat : n = Len(Table)
    BY TableIs
  <2>3. next \in 1..(n + 1) /\ (next' = next \/ (next <= n /\ next' = next + 1))
    BY <1>1, <2>1, <2>2, Zenon
  <2>5. next' \in 1..(n + 1)
    BY <2>3
  <2>4. init' \in {"start", "install", "gone", "remove tmp", "create tmp", "syncsvr", "pwdsvr", "login",
                  "run"}
    BY <1>1, <2>1
  <2> QED
    BY <2>2, <2>5, <2>4
<1>3. CASE Stop
  <2>1. init' = "start" /\ next' = 1
    BY <1>3, Zenon DEF Stop
  <2>2. 1 \in 1..(Len(Table) + 1)
    BY TableIs
  <2> QED
    BY <2>1, <2>2
<1>4. CASE UNCHANGED booting
  BY <1>1, <1>4 DEF booting
<1> QED
  BY <1>2, <1>3, <1>4 DEF Next, LoginSteps, ShellSteps, Typing, Interrupt, Sync, PwdSvr, Match, Open, Write,
     LoginPrompts, LoginChecks, LoginRunsShell, LoginWaits, ShellPrompts, ShellEnlists, ShellWait, LoginName,
     LoginPassword, ShellExits, ShellWaitsFor, ShellRuns, LineLost, Finish, PasswdStarts, PasswdName,
     PasswdOld, PasswdNew, PasswdAgain, PasswdGivesUp

LEMMA LoginStep ==
  ASSUME Types, Next
  PROVE  LoginTypes'
<1> USE DEF LoginTypes
<1>1. LoginTypes /\ ShellTypes /\ Off \in LoginType /\ <<>> \in Seq(ShellPids)
  BY TypesAre DEF Off, LoginType
<1>2. CASE UNCHANGED <<login, ended>>
  BY <1>1, <1>2
<1>3. CASE StartLogin \/ LoginPrompts \/ LoginName \/ LoginPassword \/ LoginChecks
  <2>1. ended' = ended
    BY <1>3 DEF StartLogin, LoginPrompts, LoginName, LoginPassword, LoginChecks
  <2>2. \/ login' = login
        \/ \E pc \in {"prompt", "name", "password", "check", "shell"} :
             \/ login' = [login EXCEPT !.pc = pc]
             \/ \E p \in Pwds \cup {None} : login' = [login EXCEPT !.pc = pc, !.typed = p]
    BY <1>3 DEF StartLogin, LoginPrompts, LoginName, LoginPassword, LoginChecks
  <2> QED
    BY <1>1, <2>1, <2>2 DEF LoginType
<1>4. CASE LoginRunsShell
  <2>1. NewShellPid \in ShellPids
    BY <1>4 DEF LoginRunsShell, NewShellPid, FreeShellPids
  <2> QED
    BY <1>1, <1>4, <2>1 DEF LoginRunsShell, LoginType
<1>5. CASE LoginWaits
  <2>1. ended' \in Seq(ShellPids)
    BY <1>1, <1>5 DEF LoginWaits
  <2> QED
    BY <1>1, <1>5, <2>1 DEF LoginWaits, LoginType
<1>6. CASE ShellExits
  BY <1>1, <1>6 DEF ShellExits, Gets, ShellTypes
<1>7. CASE Stop
  BY <1>1, <1>7 DEF Stop
<1> QED
  BY <1>2, <1>3, <1>4, <1>5, <1>6, <1>7 DEF Next, InitSteps, LookForRoot, Install, PullFails, SyncInstalled,
     RemoveTmp, CreateTmp, StartServer, LoginSteps, ShellSteps, Typing, Interrupt, Sync, PwdSvr, Match, Open,
     Write, ShellPrompts, ShellEnlists, ShellWait, ShellWaitsFor, ShellRuns, LineLost, Finish, PasswdStarts,
     PasswdName, PasswdOld, PasswdNew, PasswdAgain, PasswdGivesUp

\* A job that goes on remains one.
LEMMA GoesOn ==
  ASSUME Types, NEW j \in Jobs, Live(j), NEW job \in JobType, jobs' = [jobs EXCEPT ![j] = job],
         job.pc \in AskingPcs => job.fg,
         job.pc \in {"new", "again", "rpc"} => job.old \in Pwds,
         job.pc \in {"again", "rpc"} => job.new \in Pwds
  PROVE  JobTypes'
<1>1. jobs \in [Jobs -> JobType \cup {NoJob}] /\ \A i \in Jobs : JobOK(i)
  BY DEF Types
<1>2. jobs' \in [Jobs -> JobType \cup {NoJob}] /\ jobs'[j] = job
  BY <1>1
<1>3. ASSUME NEW i \in Jobs PROVE JobOK(i)'
  <2>1. CASE i = j
    BY <1>2, <2>1 DEF JobOK
  <2>2. CASE i # j
    <3>1. jobs'[i] = jobs[i]
      BY <1>1, <2>2
    <3> QED
      BY <1>1, <3>1 DEF JobOK
  <2> QED
    BY <2>1, <2>2
<1> QED
  BY <1>2, <1>3 DEF JobTypes

LEMMA EndsTypes ==
  ASSUME Types, NEW j \in Jobs, Ends(j)
  PROVE  JobTypes' /\ ShellTypes'
<1>1. \A i \in Jobs : JobOK(i)
  BY DEF Types
<1>2. \A i \in Jobs : JobOK(i)'
  BY <1>1, EndsIs DEF JobOK, NoJob, AskingPcs
<1> QED
  <2>1. shell'.pc = "started" => shell'.job \in Jobs
    BY EndsIs DEF Types
  <2> QED
    BY <1>2, <2>1, EndsIs DEF JobTypes, ShellTypes

LEMMA ProcessStep ==
  ASSUME Types, Next
  PROVE  ShellTypes' /\ JobTypes'
<1>1. ShellTypes /\ JobTypes
  BY TypesAre
<1>2. ASSUME UNCHANGED shell PROVE ShellTypes'
  BY <1>1, <1>2 DEF ShellTypes, Running
<1>3. ASSUME UNCHANGED jobs PROVE JobTypes'
  BY <1>1, <1>3 DEF JobTypes, JobOK
<1>4. CASE UNCHANGED <<shell, jobs>>
  BY <1>2, <1>3, <1>4
<1>5. ASSUME NEW j \in Jobs, Ends(j) PROVE ShellTypes' /\ JobTypes'
  BY <1>5, EndsTypes
<1>6. ASSUME shell' \in ShellType, shell'.pid = shell.pid, Running, shell'.pc # "started"
      PROVE  ShellTypes'
  BY <1>1, <1>6 DEF ShellTypes, Running
<1>7. CASE LoginRunsShell
  <2>1. NewShellPid \in ShellPids
    BY <1>7 DEF LoginRunsShell, NewShellPid, FreeShellPids
  <2>2. UNCHANGED shell \/ shell' = [NoShell EXCEPT !.pid = NewShellPid, !.pc = "prompt"]
    BY <1>7, Zenon DEF LoginRunsShell
  <2>3. ASSUME shell' = [NoShell EXCEPT !.pid = NewShellPid, !.pc = "prompt"] PROVE ShellTypes'
    <3>1. NoShell \in ShellType
      BY DEF NoShell, ShellType
    <3>2. PICK x \in ShellPids : shell' = [NoShell EXCEPT !.pid = x, !.pc = "prompt"]
      BY <2>1, <2>3
    <3>3. shell' \in ShellType
      BY <3>1, <3>2 DEF ShellType
    <3>4. shell'.pid = x /\ shell'.pc = "prompt"
      BY <3>2 DEF NoShell
    <3> QED
      BY <3>3, <3>4 DEF ShellTypes
  <2>4. UNCHANGED jobs
    BY <1>7, Zenon DEF LoginRunsShell
  <2> QED
    BY <1>2, <1>3, <2>2, <2>3, <2>4
<1>8. CASE ShellExits
  <2>1. shell' = NoShell /\ UNCHANGED jobs
    BY <1>8, Zenon DEF ShellExits
  <2>2. NoShell \in ShellType /\ NoShell.pc = "dead"
    BY DEF NoShell, ShellType
  <2>3. ShellTypes'
    BY <2>1, <2>2 DEF ShellTypes, Running
  <2> QED
    BY <1>3, <2>1, <2>3
<1>9. CASE ShellPrompts
  <2>1. Running /\ shell' = [shell EXCEPT !.pc = "read"] /\ UNCHANGED jobs
    BY <1>9, Zenon DEF ShellPrompts
  <2>2. shell' \in ShellType /\ shell'.pid = shell.pid /\ shell'.pc # "started"
    BY <1>1, <2>1 DEF ShellTypes, ShellType
  <2> QED
    BY <1>3, <1>6, <2>1, <2>2
<1>10. CASE ShellWaitsFor
  <2>1. PICK j \in Jobs \cup {None} :
          /\ Running /\ UNCHANGED jobs
          /\ \/ shell' = [shell EXCEPT !.pc = "wait", !.job = j]
             \/ shell' = [shell EXCEPT !.pc = "prompt"]
    BY <1>10, Zenon DEF ShellWaitsFor, Gets
  <2>2. shell' \in ShellType /\ shell'.pid = shell.pid /\ shell'.pc # "started"
    BY <1>1, <2>1 DEF ShellTypes, ShellType
  <2> QED
    BY <1>3, <1>6, <2>1, <2>2
<1>11. CASE ShellEnlists
  <2>1. /\ Running /\ shell.pc = "started" /\ UNCHANGED jobs
        /\ shell' = [shell EXCEPT !.procs = @ \cup {shell.job}, !.fg = FALSE,
                                  !.pc = IF shell.fg THEN "wait" ELSE "prompt",
                                  !.job = IF shell.fg THEN @ ELSE None]
    BY <1>11, Zenon DEF ShellEnlists
  <2>2. shell.job \in Jobs
    BY <1>1, <2>1 DEF ShellTypes
  <2>3. shell' \in ShellType /\ shell'.pid = shell.pid /\ shell'.pc # "started"
    BY <1>1, <2>1, <2>2 DEF ShellTypes, ShellType
  <2> QED
    BY <1>3, <1>6, <2>1, <2>3
<1>12. CASE ShellWait
  <2>1. /\ Running /\ (WaitsForNone \/ shell.events # <<>>) /\ UNCHANGED jobs
        /\ shell' = IF WaitsForNone THEN [shell EXCEPT !.pc = "prompt"]
                    ELSE LET e == Head(shell.events)
                         IN  [shell EXCEPT !.procs = @ \ {e}, !.events = Tail(@),
                                           !.pc = IF e = shell.job THEN "prompt" ELSE "wait",
                                           !.job = IF e = shell.job THEN None ELSE @]
    BY <1>12, Zenon DEF ShellWait
  <2>2. CASE WaitsForNone
    <3>1. shell' = [shell EXCEPT !.pc = "prompt"]
      BY <2>1, <2>2
    <3>2. shell' \in ShellType /\ shell'.pid = shell.pid /\ shell'.pc # "started"
      BY <1>1, <3>1 DEF ShellTypes, ShellType
    <3> QED
      BY <1>3, <1>6, <2>1, <3>2
  <2>3. CASE ~WaitsForNone
    <3>1. Tail(shell.events) \in Seq(Jobs)
      BY <1>1, <2>1, <2>3 DEF ShellTypes, ShellType
    <3> DEFINE e == Head(shell.events)
    <3> HIDE DEF e
    <3>2. shell' = [shell EXCEPT !.procs = @ \ {e}, !.events = Tail(@),
                                 !.pc = IF e = shell.job THEN "prompt" ELSE "wait",
                                 !.job = IF e = shell.job THEN None ELSE @]
      BY <2>1, <2>3 DEF e
    <3>3. shell' \in ShellType /\ shell'.pid = shell.pid /\ shell'.pc # "started"
      BY <1>1, <3>1, <3>2 DEF ShellTypes, ShellType
    <3> QED
      BY <1>3, <1>6, <2>1, <3>3
  <2> QED
    BY <2>2, <2>3
<1>13. CASE ShellRuns
  <2>1. PICK kind \in Program, fg \in BOOLEAN :
          \/ shell' = [shell EXCEPT !.pc = "prompt"] /\ UNCHANGED jobs
          \/ \E j \in Jobs : /\ ~Live(j) /\ SpawnExec(j, kind, fg)
                             /\ shell' = [shell EXCEPT !.pc = "started", !.job = j, !.fg = fg]
    <3>1. PICK kind \in Program, fg \in BOOLEAN :
            \/ shell' = [shell EXCEPT !.pc = "prompt"] /\ UNCHANGED jobs
            \/ LET j == CHOOSE i \in Unused : TRUE IN
                 /\ Unused # {} /\ SpawnExec(j, kind, fg)
                 /\ shell' = [shell EXCEPT !.pc = "started", !.job = j, !.fg = fg]
      BY <1>13, Zenon DEF ShellRuns, Program
    <3>2. Unused # {} => (CHOOSE i \in Unused : TRUE) \in Unused
      OBVIOUS
    <3>3. \A j \in Unused : j \in Jobs /\ ~Live(j)
      BY DEF Unused
    <3> QED
      BY <3>1, <3>2, <3>3, Zenon
  <2>2. Running
    BY <1>13 DEF ShellRuns, Gets
  <2>3. CASE shell' = [shell EXCEPT !.pc = "prompt"] /\ UNCHANGED jobs
    <3>1. shell' \in ShellType /\ shell'.pid = shell.pid /\ shell'.pc # "started"
      BY <1>1, <2>3 DEF ShellTypes, ShellType
    <3> QED
      BY <1>3, <1>6, <2>2, <2>3, <3>1
  <2>4. ASSUME NEW j \in Jobs, SpawnExec(j, kind, fg),
               shell' = [shell EXCEPT !.pc = "started", !.job = j, !.fg = fg]
        PROVE  ShellTypes' /\ JobTypes'
    <3>1. shell' \in ShellType /\ shell'.pid = shell.pid /\ shell'.job \in Jobs
      BY <1>1, <2>4 DEF ShellTypes, ShellType
    <3>2. ShellTypes'
      BY <1>1, <2>2, <3>1 DEF ShellTypes
    <3> DEFINE job == [NoJob EXCEPT !.kind = kind, !.owner = shell.pid, !.fg = fg, !.pc = "start"]
    <3>3. job \in JobType /\ job.pc = "start"
      BY <1>1, <2>2 DEF ShellTypes, JobType, NoJob
    <3>4. jobs' = [jobs EXCEPT ![j] = job]
      BY <2>4 DEF SpawnExec
    <3> HIDE DEF job
    <3>5. jobs' \in [Jobs -> JobType \cup {NoJob}] /\ \A i \in Jobs : jobs'[i] = IF i = j THEN job ELSE jobs[i]
      BY <1>1, <3>3, <3>4 DEF JobTypes
    <3>6. \A i \in Jobs : JobOK(i)'
      BY <1>1, <3>3, <3>5 DEF JobTypes, JobOK, AskingPcs
    <3> QED
      BY <3>2, <3>5, <3>6 DEF JobTypes
  <2> QED
    BY <2>1, <2>3, <2>4
<1>14. CASE Typing
  BY <1>2, <1>3, <1>8, <1>10, <1>13, <1>14 DEF Typing, LoginName, LoginPassword, LineLost
<1>15. ASSUME NEW j \in Jobs,
              Finish(j) \/ PasswdStarts(j) \/ PasswdName(j) \/ PasswdOld(j) \/ PasswdNew(j)
                \/ PasswdAgain(j) \/ PasswdGivesUp(j)
       PROVE  ShellTypes' /\ JobTypes'
  <2>1. Live(j)
    BY <1>15 DEF Finish, PasswdStarts, PasswdName, PasswdOld, PasswdNew, PasswdAgain, PasswdGivesUp, At
  <2>2. jobs[j] \in JobType /\ JobOK(j)
    BY <2>1, LiveIs DEF Types
  <2>3. \/ Ends(j)
        \/ /\ UNCHANGED shell
           /\ \/ jobs[j].pc = "start" /\ jobs[j].fg /\ Goto(j, "name")
              \/ jobs[j].pc = "name" /\ Goto(j, "old")
              \/ jobs[j].pc = "old" /\ \E p \in Pwds : jobs' = [jobs EXCEPT ![j].pc = "new", ![j].old = p]
              \/ jobs[j].pc = "new" /\ \E p \in Pwds : jobs' = [jobs EXCEPT ![j].pc = "again", ![j].new = p]
              \/ jobs[j].pc = "again" /\ Goto(j, "rpc")
    BY <1>15, Zenon DEF Finish, PasswdStarts, PasswdName, PasswdOld, PasswdNew, PasswdAgain, PasswdGivesUp,
       Goto, At
  <2>4. ASSUME UNCHANGED shell, NEW job \in JobType, jobs' = [jobs EXCEPT ![j] = job], job.fg,
               job.pc \in {"new", "again", "rpc"} => job.old \in Pwds,
               job.pc \in {"again", "rpc"} => job.new \in Pwds
        PROVE  ShellTypes' /\ JobTypes'
    <3>1. JobTypes'
      BY <2>1, <2>4, GoesOn
    <3> QED
      BY <1>2, <2>4, <3>1
  <2>5. jobs[j].pc # "start" => jobs[j].fg
    BY <2>2 DEF JobType, JobOK
  <2>6. ASSUME NEW pc \in AskingPcs, Goto(j, pc), jobs[j].fg,
               pc = "rpc" => jobs[j].pc = "again", pc # "rpc" => pc \in {"name", "old"}
        PROVE  ShellTypes' /\ JobTypes'
    <3> DEFINE job == [jobs[j] EXCEPT !.pc = pc]
    <3>1. job \in JobType /\ job.pc = pc /\ job.fg = jobs[j].fg /\ job.old = jobs[j].old /\ job.new = jobs[j].new
      BY <2>2, <2>6 DEF JobType
    <3>2. jobs' = [jobs EXCEPT ![j] = job] /\ UNCHANGED shell
      BY <2>6 DEF Goto
    <3> HIDE DEF job
    <3>3. pc = "rpc" => jobs[j].old \in Pwds /\ jobs[j].new \in Pwds
      BY <2>2, <2>6 DEF JobOK
    <3>4. pc \notin {"new", "again"}
      BY <2>6
    <3> QED
      BY <2>4, <2>6, <3>1, <3>2, <3>3, <3>4
  <2>7. ASSUME UNCHANGED shell, jobs[j].pc = "old", NEW p \in Pwds,
               jobs' = [jobs EXCEPT ![j].pc = "new", ![j].old = p]
        PROVE  ShellTypes' /\ JobTypes'
    <3> DEFINE job == [jobs[j] EXCEPT !.pc = "new", !.old = p]
    <3>1. job \in JobType /\ job.pc = "new" /\ job.fg = jobs[j].fg /\ job.old = p
      BY <2>2, <2>7 DEF JobType, AskingPcs
    <3>2. jobs' = [jobs EXCEPT ![j] = job]
      BY <1>1, <2>7 DEF JobTypes
    <3> HIDE DEF job
    <3> QED
      BY <2>4, <2>5, <2>7, <3>1, <3>2
  <2>8. ASSUME UNCHANGED shell, jobs[j].pc = "new", NEW p \in Pwds,
               jobs' = [jobs EXCEPT ![j].pc = "again", ![j].new = p]
        PROVE  ShellTypes' /\ JobTypes'
    <3> DEFINE job == [jobs[j] EXCEPT !.pc = "again", !.new = p]
    <3>1. job \in JobType /\ job.pc = "again" /\ job.fg = jobs[j].fg /\ job.old = jobs[j].old /\ job.new = p
      BY <2>2, <2>8 DEF JobType, AskingPcs
    <3>2. jobs' = [jobs EXCEPT ![j] = job]
      BY <1>1, <2>8 DEF JobTypes
    <3>3. jobs[j].old \in Pwds
      BY <2>2, <2>8 DEF JobOK
    <3> HIDE DEF job
    <3> QED
      BY <2>4, <2>5, <2>8, <3>1, <3>2, <3>3
  <2> QED
    <3>1. {"name", "old", "rpc"} \subseteq AskingPcs
      BY DEF AskingPcs
    <3> QED
      BY <1>5, <2>3, <2>5, <2>6, <2>7, <2>8, <3>1
<1>16. CASE Interrupt
  <2>1. PICK j \in Jobs : Ends(j)
    BY <1>16 DEF Interrupt
  <2> QED
    BY <1>5, <2>1
<1>17. CASE PwdSvr
  <2>1. ASSUME NEW req \in Request, NEW ok \in BOOLEAN, Respond(req, ok) PROVE ShellTypes' /\ JobTypes'
    <3>1. req.src \in Jobs
      BY DEF Request
    <3>2. Ends(req.src) \/ UNCHANGED <<jobs, shell>>
      BY <2>1 DEF Respond
    <3> QED
      BY <1>4, <1>5, <3>1, <3>2
  <2>2. CASE Match
    <3>1. Head(asks) \in Request
      <4>1. asks # <<>> /\ asks \in Seq(Request)
        BY <2>2 DEF Match, Types
      <4> QED
        BY <4>1
    <3>2. UNCHANGED <<jobs, shell>> \/ Respond(Head(asks), FALSE)
      BY <2>2, Zenon DEF Match
    <3> QED
      BY <1>4, <2>1, <3>1, <3>2
  <2>3. CASE Open
    BY <1>4, <2>3 DEF Open
  <2>4. CASE Write
    <3>1. pwdsvr.req \in Request
      <4>1. pwdsvr # Idle /\ ServerTypes
        BY <2>4, TypesAre DEF Write, Idle
      <4> QED
        BY <4>1 DEF ServerTypes
    <3> QED
      BY <2>1, <2>4, <3>1 DEF Write
  <2> QED
    BY <1>17, <2>2, <2>3, <2>4 DEF PwdSvr
<1>18. CASE InitSteps \/ Sync \/ LoginSteps
  BY <1>2, <1>3, <1>7, <1>18 DEF InitSteps, LookForRoot, Install, PullFails, SyncInstalled, RemoveTmp,
     CreateTmp, StartServer, StartLogin, Sync, LoginSteps, LoginPrompts, LoginChecks, LoginWaits
<1>19. CASE Stop
  <2>1. shell' = NoShell /\ jobs' = [j \in Jobs |-> NoJob]
    BY <1>19, Zenon DEF Stop
  <2>2. NoShell \in ShellType /\ NoShell.pc = "dead"
    BY DEF NoShell, ShellType
  <2>3. ShellTypes'
    BY <2>1, <2>2 DEF ShellTypes, Running
  <2>4. JobTypes'
    BY <2>1 DEF JobTypes, JobOK, NoJob, AskingPcs
  <2> QED
    BY <2>3, <2>4
<1>20. CASE ShellSteps
  BY <1>9, <1>11, <1>12, <1>20 DEF ShellSteps
<1> QED
  BY <1>14, <1>15, <1>16, <1>17, <1>18, <1>19, <1>20 DEF Next

LEMMA ServerStep ==
  ASSUME Types, Next
  PROVE  ServerTypes'
<1>1. asks \in Seq(Request) /\ (pwdsvr = Idle \/ pwdsvr \in [pc : {"open", "write"}, req : Request])
  BY DEF Types
<1>2. ASSUME UNCHANGED passwords PROVE ServerTypes'
  BY <1>1, <1>2 DEF ServerTypes, passwords
<1>3. ASSUME NEW j \in Jobs, PasswdAgain(j) PROVE ServerTypes'
  <2>1. UNCHANGED pwdsvr /\ (UNCHANGED asks \/ AskChange(j))
    BY <1>3, Zenon DEF PasswdAgain
  <2>2. Live(j) /\ jobs[j].pc = "again"
    BY <1>3 DEF PasswdAgain, At
  <2>3. jobs[j] \in JobType
    BY <2>2, LiveIs
  <2>4. jobs[j].old \in Pwds /\ jobs[j].new \in Pwds
    BY <2>2 DEF Types, JobOK
  <2>5. [src |-> j, old |-> jobs[j].old, new |-> jobs[j].new] \in Request
    BY <2>4 DEF Request
  <2>6. asks' \in Seq(Request)
    BY <1>1, <2>1, <2>5 DEF AskChange
  <2> QED
    BY <1>1, <2>1, <2>6 DEF ServerTypes
<1>4. CASE Match
  <2>1. asks # <<>> /\ asks' = Tail(asks)
        /\ (UNCHANGED pwdsvr \/ pwdsvr' = [pc |-> "open", req |-> Head(asks)])
    BY <1>4, Zenon DEF Match
  <2>2. asks' \in Seq(Request) /\ Head(asks) \in Request
    BY <1>1, <2>1
  <2> QED
    BY <1>1, <2>1, <2>2 DEF ServerTypes
<1>5. CASE Open
  <2>1. pwdsvr.pc = "open" /\ pwdsvr' = [pwdsvr EXCEPT !.pc = "write"] /\ UNCHANGED asks
    BY <1>5, Zenon DEF Open
  <2>2. pwdsvr \in [pc : {"open", "write"}, req : Request]
    BY <1>1, <2>1 DEF Idle
  <2>3. pwdsvr' \in [pc : {"open", "write"}, req : Request]
    BY <2>1, <2>2
  <2>4. asks' \in Seq(Request)
    BY <1>1, <2>1, Zenon
  <2> QED
    BY <2>3, <2>4 DEF ServerTypes
<1>6. CASE Write \/ Stop
  <2>1. (UNCHANGED asks \/ asks' = <<>>) /\ pwdsvr' = Idle
    BY <1>6, Zenon DEF Write, Stop
  <2>2. asks \in Seq(Request) /\ <<>> \in Seq(Request)
    BY <1>1
  <2>3. asks' \in Seq(Request)
    BY <2>1, <2>2, Zenon
  <2> QED
    BY <2>1, <2>3, Zenon DEF ServerTypes, Idle
<1>7. CASE InitSteps \/ LoginSteps \/ ShellSteps \/ Typing \/ Sync \/ Interrupt
  BY <1>2, <1>7, Zenon DEF InitSteps, LookForRoot, Install, PullFails, SyncInstalled, RemoveTmp, CreateTmp,
     StartServer, StartLogin, LoginSteps, LoginPrompts, LoginChecks, LoginRunsShell, LoginWaits,
     ShellSteps, ShellPrompts, ShellEnlists, ShellWait, Typing, LoginName, LoginPassword, ShellExits,
     ShellWaitsFor, ShellRuns, LineLost, Sync, Interrupt
<1>8. ASSUME NEW j \in Jobs,
             Finish(j) \/ PasswdStarts(j) \/ PasswdName(j) \/ PasswdOld(j) \/ PasswdNew(j) \/ PasswdGivesUp(j)
      PROVE  ServerTypes'
  BY <1>2, <1>8, Zenon DEF Finish, PasswdStarts, PasswdName, PasswdOld, PasswdNew, PasswdGivesUp
<1> QED
  BY <1>3, <1>4, <1>5, <1>6, <1>7, <1>8 DEF Next, PwdSvr

\* What is answered to a request: its job, if it waits for that, ends.
LEMMA RespondIs ==
  ASSUME Types, NEW req \in Request, NEW ok \in BOOLEAN, Respond(req, ok)
  PROVE  /\ req.src \in Jobs /\ req.new \in Pwds
         /\ At(req.src, "rpc") => Ends(req.src) /\ valid' = IF ok THEN {req.new} ELSE valid
         /\ ~At(req.src, "rpc") => UNCHANGED <<jobs, shell, valid>>
BY DEF Respond, Request

\* What is answered to: the request that was the first, or the one that was handled.
LEMMA RequestsAre ==
  ASSUME Types
  PROVE  /\ asks # <<>> => Head(asks) \in Request /\ Len(asks) >= 1 /\ Head(asks) = asks[1]
         /\ pwdsvr.pc # "idle" => pwdsvr \in [pc : {"open", "write"}, req : Request]
<1>1. asks \in Seq(Request) /\ (pwdsvr = Idle \/ pwdsvr \in [pc : {"open", "write"}, req : Request])
  BY DEF Types
<1>2. asks # <<>> => Head(asks) \in Request /\ Len(asks) >= 1 /\ Head(asks) = asks[1]
  BY <1>1
<1>3. Idle.pc = "idle"
  BY DEF Idle
<1> QED
  BY <1>1, <1>2, <1>3

LEMMA FlagStep ==
  ASSUME Types, Next
  PROVE  FlagTypes'
<1>1. FlagTypes /\ Initial \in Pwds
  BY TypesAre, PasswordsAre
<1>2. echo' \in BOOLEAN /\ torn' \in BOOLEAN /\ cut' \in BOOLEAN /\ stuck' \in BOOLEAN
  <2>1. CASE InitSteps \/ LoginSteps \/ ShellSteps \/ Typing \/ PwdSvr \/ Sync
    BY <1>1, <2>1, Zenon DEF FlagTypes, history, terminal, InitSteps, LookForRoot, Install, PullFails,
       SyncInstalled, RemoveTmp, CreateTmp, StartServer, StartLogin, LoginSteps, LoginPrompts, LoginChecks,
       LoginRunsShell, LoginWaits, ShellSteps, ShellPrompts, ShellEnlists, ShellWait, Typing, LoginName,
       LoginPassword, ShellExits, ShellWaitsFor, ShellRuns, LineLost, PwdSvr, Match, Open, Write, Sync
  <2>2. CASE Interrupt
    BY <1>1, <2>2 DEF FlagTypes, Interrupt, terminal
  <2>3. CASE Stop
    <3>1. /\ echo' = FALSE /\ stuck' = FALSE
          /\ torn' = (torn \/ stable.passwd # {disk.passwd} \/ pwdsvr.pc = "write")
          /\ cut' = (cut \/ init \in {"install", "gone"})
      BY <2>3, Zenon DEF Stop
    <3> QED
      BY <3>1
  <2>4. ASSUME NEW j \in Jobs,
               Finish(j) \/ PasswdStarts(j) \/ PasswdName(j) \/ PasswdOld(j) \/ PasswdNew(j)
                 \/ PasswdAgain(j) \/ PasswdGivesUp(j)
        PROVE  echo' \in BOOLEAN /\ torn' \in BOOLEAN /\ cut' \in BOOLEAN /\ stuck' \in BOOLEAN
    BY <1>1, <2>4, Zenon DEF FlagTypes, history, terminal, Finish, PasswdStarts, PasswdName, PasswdOld,
       PasswdNew, PasswdAgain, PasswdGivesUp
  <2> QED
    BY <2>1, <2>2, <2>3, <2>4 DEF Next
<1>3. valid' \in SUBSET Pwds
  <2>1. valid \in SUBSET Pwds
    BY <1>1 DEF FlagTypes
  <2>2. CASE LookForRoot
    <3>1. valid' = valid \/ valid' = {Initial}
      BY <2>2, Zenon DEF LookForRoot
    <3> QED
      BY <1>1, <2>1, <3>1
  <2>3. CASE Interrupt
    <3>1. PICK j \in Jobs : Live(j) /\ valid' = IF At(j, "rpc") THEN valid \cup {jobs[j].new} ELSE valid
      BY <2>3, Zenon DEF Interrupt
    <3>2. At(j, "rpc") => jobs[j].new \in Pwds
      BY DEF At, Types, JobOK
    <3> QED
      BY <2>1, <3>1, <3>2
  <2>4. CASE Match
    <3>1. Head(asks) \in Request
      BY <2>4, RequestsAre DEF Match
    <3>2. UNCHANGED valid \/ Respond(Head(asks), FALSE)
      BY <2>4, Zenon DEF Match
    <3>3. UNCHANGED valid
      BY <3>1, <3>2, RespondIs
    <3> QED
      BY <2>1, <3>3
  <2>5. CASE Write
    <3>1. pwdsvr.req \in Request /\ Respond(pwdsvr.req, TRUE)
      BY <2>5, RequestsAre DEF Write
    <3> QED
      BY <2>1, <3>1, RespondIs
  <2>6. CASE Stop
    <3>1. valid' = valid \cup {jobs[j].new : j \in {i \in Jobs : At(i, "rpc")}}
      BY <2>6, Zenon DEF Stop
    <3>2. \A j \in Jobs : At(j, "rpc") => jobs[j].new \in Pwds
      BY DEF At, Types, JobOK
    <3> QED
      BY <2>1, <3>1, <3>2
  <2>7. CASE Install \/ PullFails \/ SyncInstalled \/ RemoveTmp \/ CreateTmp \/ StartServer \/ StartLogin
               \/ LoginSteps \/ ShellSteps \/ Typing \/ Open \/ Sync
    <3>1. UNCHANGED valid
      BY <2>7, Zenon DEF history, Install, PullFails, SyncInstalled, RemoveTmp, CreateTmp, StartServer,
         StartLogin, LoginSteps, LoginPrompts, LoginChecks, LoginRunsShell, LoginWaits, ShellSteps,
         ShellPrompts, ShellEnlists, ShellWait, Typing, LoginName, LoginPassword, ShellExits, ShellWaitsFor,
         ShellRuns, LineLost, Open, Sync
    <3> QED
      BY <2>1, <3>1
  <2>8. ASSUME NEW j \in Jobs,
               Finish(j) \/ PasswdStarts(j) \/ PasswdName(j) \/ PasswdOld(j) \/ PasswdNew(j)
                 \/ PasswdAgain(j) \/ PasswdGivesUp(j)
        PROVE  valid' \in SUBSET Pwds
    <3>1. UNCHANGED valid
      BY <2>8, Zenon DEF history, Finish, PasswdStarts, PasswdName, PasswdOld, PasswdNew, PasswdAgain,
         PasswdGivesUp
    <3> QED
      BY <2>1, <3>1
  <2> QED
    BY <2>2, <2>3, <2>4, <2>5, <2>6, <2>7, <2>8 DEF Next, InitSteps, PwdSvr
<1> QED
  BY <1>2, <1>3 DEF FlagTypes

LEMMA TypesStep ==
  ASSUME Types, Next
  PROVE  Types'
<1>1. DiskTypes' /\ InitTypes' /\ LoginTypes' /\ ShellTypes' /\ JobTypes' /\ ServerTypes' /\ FlagTypes'
  BY DiskStep, InitStep, LoginStep, ProcessStep, ServerStep, FlagStep
<1> QED
  BY <1>1 DEF Types, DiskTypes, InitTypes, LoginTypes, ShellTypes, JobTypes, ServerTypes, FlagTypes

-----------------------------------------------------------------------------
(* Booting.                                                                 *)

JobStep(j) ==
  \/ Finish(j) \/ PasswdStarts(j) \/ PasswdName(j) \/ PasswdOld(j) \/ PasswdNew(j)
  \/ PasswdAgain(j) \/ PasswdGivesUp(j)

\* Only a process that is alive does something.
LEMMA Actors ==
  /\ LoginSteps \/ LoginName \/ LoginPassword => login.pc # "off"
  /\ ShellSteps \/ ShellExits \/ ShellWaitsFor \/ ShellRuns => Running
  /\ Interrupt => \E j \in Jobs : Live(j)
  /\ PwdSvr => asks # <<>> \/ pwdsvr.pc # "idle"
  /\ \A j \in Jobs : JobStep(j) => Live(j)
<1>1. LoginSteps \/ LoginName \/ LoginPassword => login.pc # "off"
  BY DEF LoginSteps, LoginPrompts, LoginChecks, LoginRunsShell, LoginWaits, LoginName, LoginPassword
<1>2. ShellSteps \/ ShellExits \/ ShellWaitsFor \/ ShellRuns => Running
  BY Zenon DEF ShellSteps, ShellPrompts, ShellEnlists, ShellWait, ShellExits, ShellWaitsFor, ShellRuns, Gets
<1>3. Interrupt => \E j \in Jobs : Live(j)
  BY Zenon DEF Interrupt
<1>4. PwdSvr => asks # <<>> \/ pwdsvr.pc # "idle"
  BY DEF PwdSvr, Match, Open, Write
<1>5. \A j \in Jobs : JobStep(j) => Live(j)
  BY Zenon DEF JobStep, Finish, PasswdStarts, PasswdName, PasswdOld, PasswdNew, PasswdAgain, PasswdGivesUp, At
<1> QED
  BY <1>1, <1>2, <1>3, <1>4, <1>5

\* What Next is, by who acts.
LEMMA Steps ==
  ASSUME Next
  PROVE  \/ InitSteps \/ LoginSteps \/ LoginName \/ LoginPassword \/ ShellSteps
         \/ ShellExits \/ ShellWaitsFor \/ ShellRuns \/ LineLost \/ PwdSvr \/ Sync \/ Interrupt \/ Stop
         \/ \E j \in Jobs : JobStep(j)
BY Zenon DEF Next, Typing, JobStep

\* While init is at work nothing else is.
LEMMA OnlyInit ==
  ASSUME Quiet, Next, init # "run"
  PROVE  InitSteps \/ LineLost \/ Sync \/ Stop
<1>1. /\ login.pc = "off" /\ ~Running /\ (\A j \in Jobs : ~Live(j)) /\ asks = <<>>
      /\ pwdsvr.pc = "idle"
  BY DEF Quiet, Off, Idle, Running
<1> QED
  BY <1>1, Actors, Steps

\* What a process other than init does leaves init where it is.
LEMMA InitStays ==
  ASSUME Next
  PROVE  \/ InitSteps \/ Stop
         \/ UNCHANGED booting /\ UNCHANGED cut
<1> USE DEF history
<1>1. LoginSteps \/ LoginName \/ LoginPassword => UNCHANGED <<booting, cut>>
  BY Zenon DEF LoginSteps, LoginPrompts, LoginChecks, LoginRunsShell, LoginWaits, LoginName, LoginPassword
<1>2. ShellSteps \/ ShellExits \/ ShellWaitsFor \/ ShellRuns \/ LineLost => UNCHANGED <<booting, cut>>
  BY Zenon DEF ShellSteps, ShellPrompts, ShellEnlists, ShellWait, ShellExits, ShellWaitsFor, ShellRuns,
     LineLost
<1>3. PwdSvr \/ Sync \/ Interrupt => UNCHANGED <<booting, cut>>
  BY Zenon DEF PwdSvr, Match, Open, Write, Sync, Interrupt
<1>4. \A j \in Jobs : JobStep(j) => UNCHANGED <<booting, cut>>
  BY Zenon DEF JobStep, Finish, PasswdStarts, PasswdName, PasswdOld, PasswdNew, PasswdAgain, PasswdGivesUp
<1> QED
  BY <1>1, <1>2, <1>3, <1>4, Steps, Zenon

LEMMA StopIs ==
  ASSUME Stop
  PROVE  /\ init' = "start" /\ next' = 1
         /\ login' = Off /\ ended' = <<>> /\ shell' = NoShell /\ jobs' = [j \in Jobs |-> NoJob]
         /\ asks' = <<>> /\ pwdsvr' = Idle /\ echo' = FALSE
         /\ valid' = valid \cup {jobs[j].new : j \in {i \in Jobs : At(i, "rpc")}}
         /\ torn' = (torn \/ stable.passwd # {disk.passwd} \/ pwdsvr.pc = "write")
         /\ cut' = (cut \/ init \in {"install", "gone"})
         /\ \E lost \in SUBSET (disk.entries \ stable.entries), line \in stable.passwd :
              /\ Rooted(disk.entries \ lost)
              /\ disk'.entries = disk.entries \ lost /\ disk'.passwd = line
              /\ stable' = [entries |-> disk.entries \ lost, passwd |-> {line}]
<1>1. PICK lost \in SUBSET (disk.entries \ stable.entries), line \in stable.passwd, tmp \in {"old", None} :
        /\ Rooted(disk.entries \ lost)
        /\ disk' = [entries |-> disk.entries \ lost, passwd |-> line, tmp |-> tmp]
        /\ stable' = [entries |-> disk.entries \ lost, passwd |-> {line}]
  BY Zenon DEF Stop
<1>2. /\ Rooted(disk.entries \ lost)
      /\ disk'.entries = disk.entries \ lost /\ disk'.passwd = line
      /\ stable' = [entries |-> disk.entries \ lost, passwd |-> {line}]
  BY <1>1
<1> QED
  BY <1>2, Zenon DEF Stop

LEMMA QuietStep ==
  ASSUME Quiet, Next
  PROVE  Quiet'
<1>1. CASE Stop
  <2>1. \A j \in Jobs : jobs'[j] = NoJob
    BY <1>1, StopIs
  <2> QED
    BY <1>1, <2>1, StopIs, Zenon DEF Quiet, Live
<1>2. CASE ~Stop /\ init' # "run"
  <2>1. init # "run"
    <3>1. InitSteps => init # "run"
      BY DEF InitSteps, LookForRoot, Install, PullFails, SyncInstalled, RemoveTmp, CreateTmp, StartServer,
         StartLogin
    <3> QED
      BY <1>2, <3>1, InitStays DEF booting
  <2>2. InitSteps \/ LineLost \/ Sync
    BY <1>2, <2>1, OnlyInit
  <2>3. ~StartLogin
    BY <1>2 DEF StartLogin
  <2>4. UNCHANGED <<login, ended, shell, jobs, passwords>>
    BY <2>2, <2>3, Zenon DEF InitSteps, LookForRoot, Install, PullFails, SyncInstalled, RemoveTmp, CreateTmp,
       StartServer, LineLost, Sync
  <2> QED
    BY <2>1, <2>4, Zenon DEF Quiet, Live, passwords
<1>3. CASE init' = "run"
  BY <1>3 DEF Quiet
<1> QED
  BY <1>1, <1>2, <1>3

\* An entry has the root above it: of two entries the parent comes first in the table.
LEMMA RootAbove ==
  ASSUME NEW S \in SUBSET Entries, Rooted(S), Root \notin S
  PROVE  S = {}
<1> SUFFICES ASSUME S # {} PROVE FALSE
  OBVIOUS
<1> DEFINE N == {n \in 1..Len(Table) : Table[n] \in S}
<1>1. PICK e \in S : e \in Entries \ {Root}
  OBVIOUS
<1>2. PICK m \in 1..Len(Table) : e = Table[m]
  BY <1>1, TableIs
<1>3. N \in SUBSET Nat /\ N # {}
  BY <1>1, <1>2
<1>4. PICK n \in N : \A k \in N : n <= k
  BY <1>3, Least
<1>5. n \in 1..Len(Table) /\ Table[n] \in S \ {Root} /\ Len(Table) \in Nat
  BY <1>4, TableIs
<1>6. Parent[Table[n]] \in S
  BY <1>5 DEF Rooted
<1>7. Parent[Table[n]] \in {Root} \cup {Table[k] : k \in 1..(n - 1)}
  BY <1>5, TableAssumption
<1>8. PICK k \in 1..(n - 1) : Parent[Table[n]] = Table[k]
  BY <1>6, <1>7
<1>9. k \in N /\ k < n
  BY <1>5, <1>6, <1>8
<1> QED
  BY <1>4, <1>5, <1>9

\* Who changes the files that there are, and /tmp.
LEMMA FilesStay ==
  ASSUME Types, Next
  PROVE  /\ LookForRoot \/ Install \/ Stop \/ disk'.entries = disk.entries
         /\ RemoveTmp \/ CreateTmp \/ Stop \/ disk'.tmp = disk.tmp
         /\ Stop \/ stable'.entries \in {disk.entries, stable.entries}
<1> DEFINE Same == disk'.entries = disk.entries /\ disk'.tmp = disk.tmp
<1>1. DiskTypes
  BY TypesAre
<1>2. ASSUME NEW e, Installs(e) PROVE disk'.tmp = disk.tmp /\ stable'.entries = stable.entries
  BY <1>1, <1>2 DEF DiskTypes, Installs
<1>3. ASSUME NEW l, Store(l) PROVE Same /\ stable'.entries = stable.entries
  BY <1>1, <1>3 DEF DiskTypes, Store
<1>4. ASSUME NEW t, SetTmp(t) PROVE disk'.entries = disk.entries /\ stable'.entries = stable.entries
  BY <1>1, <1>4 DEF DiskTypes, SetTmp
<1>5. ASSUME UNCHANGED files PROVE Same /\ stable'.entries = stable.entries
  BY <1>5 DEF files
<1>6. ASSUME UNCHANGED disk, stable' = Synced PROVE Same /\ stable'.entries = disk.entries
  BY <1>6 DEF Synced
<1>7. CASE InitSteps
  <2>1. LookForRoot \/ Install => UNCHANGED files \/ \E e : Installs(e)
    BY Zenon DEF LookForRoot, Install
  <2>2. PullFails \/ StartServer \/ StartLogin => UNCHANGED files
    BY Zenon DEF PullFails, StartServer, StartLogin
  <2>3. SyncInstalled => UNCHANGED disk /\ stable' = Synced
    BY Zenon DEF SyncInstalled
  <2>4. RemoveTmp \/ CreateTmp => UNCHANGED files \/ \E t : SetTmp(t)
    BY Zenon DEF RemoveTmp, CreateTmp
  <2> HIDE DEF Same
  <2> QED
    <3>1. LookForRoot \/ Install => disk'.tmp = disk.tmp /\ stable'.entries = stable.entries
      BY <1>2, <1>5, <2>1 DEF Same
    <3>2. RemoveTmp \/ CreateTmp => disk'.entries = disk.entries /\ stable'.entries = stable.entries
      BY <1>4, <1>5, <2>4 DEF Same
    <3> QED
      BY <1>5, <1>6, <1>7, <2>2, <2>3, <3>1, <3>2 DEF InitSteps, Same
<1>8. CASE LoginSteps \/ LoginName \/ LoginPassword \/ ShellSteps \/ ShellExits \/ ShellWaitsFor
             \/ ShellRuns \/ LineLost \/ Interrupt
  <2>1. UNCHANGED files
    BY <1>8, Zenon DEF LoginSteps, LoginPrompts, LoginChecks, LoginRunsShell, LoginWaits, LoginName,
       LoginPassword, ShellSteps, ShellPrompts, ShellEnlists, ShellWait, ShellExits, ShellWaitsFor, ShellRuns,
       LineLost, Interrupt
  <2> QED
    BY <1>5, <2>1
<1>9. CASE PwdSvr
  <2>1. UNCHANGED files \/ \E l : Store(l)
    BY <1>9, Zenon DEF PwdSvr, Match, Open, Write
  <2> QED
    BY <1>3, <1>5, <2>1
<1>10. CASE Sync
  BY <1>6, <1>10 DEF Sync
<1>11. ASSUME NEW j \in Jobs, JobStep(j) PROVE UNCHANGED files
  BY <1>11, Zenon DEF JobStep, Finish, PasswdStarts, PasswdName, PasswdOld, PasswdNew, PasswdAgain,
     PasswdGivesUp
<1> QED
  BY <1>5, <1>7, <1>8, <1>9, <1>10, <1>11, Steps

\* What a stop leaves is whole if what it hit was.
LEMMA WholeStays ==
  ASSUME Types, Next, Whole, ~LookForRoot, ~Install
  PROVE  Whole'
<1>1. CASE cut
  BY <1>1, InitStays, StopIs, Zenon DEF Whole, InitSteps, LookForRoot, Install, PullFails, SyncInstalled,
     RemoveTmp, CreateTmp, StartServer, StartLogin, history
<1>2. CASE disk.entries = Entries /\ stable.entries = Entries
  <2>1. CASE Stop
    <3>1. PICK lost \in SUBSET (disk.entries \ stable.entries), line \in stable.passwd :
            /\ disk'.entries = disk.entries \ lost
            /\ stable' = [entries |-> disk.entries \ lost, passwd |-> {line}]
      BY <2>1, StopIs, Zenon
    <3>2. lost = {}
      BY <1>2
    <3> QED
      <4>1. disk'.entries = Entries /\ stable'.entries = Entries
        BY <1>2, <3>1, <3>2
      <4> QED
        BY <4>1, Zenon DEF Whole, Entries
  <2>2. CASE ~Stop
    <3>1. disk'.entries = Entries /\ stable'.entries = Entries
      BY <1>2, <2>2, FilesStay
    <3> QED
      BY <3>1, Zenon DEF Whole, Entries
  <2> QED
    BY <2>1, <2>2
<1> QED
  BY <1>1, <1>2 DEF Whole

LEMMA BootStep ==
  ASSUME Types, Quiet, Boot, Next
  PROVE  Boot'
<1>1. disk.entries \in SUBSET Entries /\ InitTypes
  BY TypesAre DEF DiskTypes
<1>2. ASSUME LookForRoot, Root \notin disk.entries
      PROVE  /\ disk'.entries = {Root} /\ init' = "install" /\ next' = 1 /\ valid' = {Initial}
  <2>1. disk.entries = {}
    BY <1>1, <1>2, RootAbove DEF Boot
  <2>2. /\ disk' = [disk EXCEPT !.entries = @ \cup {Root}, !.passwd = IF Root = Passwd THEN Initial ELSE @]
        /\ init' = "install" /\ UNCHANGED next /\ valid' = {Initial} /\ init = "start"
    BY <1>2 DEF LookForRoot, Installs
  <2>3. next = 1 /\ DiskTypes
    BY <2>2, TypesAre DEF Boot
  <2> QED
    BY <2>1, <2>2, <2>3 DEF DiskTypes
<1>3. ASSUME LookForRoot, Root \in disk.entries
      PROVE  /\ UNCHANGED files /\ UNCHANGED cut /\ init' = "remove tmp" /\ Whole
    BY <1>3, Zenon DEF LookForRoot, Boot
<1>4. ASSUME Install
      PROVE  /\ disk'.entries = disk.entries \cup {Table[next]} /\ init = "install" /\ init' = "install"
             /\ next' = next + 1 /\ next \in 1..Len(Table) /\ Table[next] \in Entries
             /\ UNCHANGED <<valid, cut>>
  <2>1. /\ disk' = [disk EXCEPT !.entries = @ \cup {Table[next]},
                                !.passwd = IF Table[next] = Passwd THEN Initial ELSE @]
        /\ init = "install" /\ UNCHANGED init /\ next' = next + 1 /\ next <= Len(Table)
        /\ UNCHANGED <<valid, cut>>
    BY <1>4 DEF Install, Installs, history
  <2>2. next \in 1..Len(Table)
    <3>1. next \in 1..(Len(Table) + 1) /\ next <= Len(Table)
      BY <1>1, <2>1 DEF InitTypes
    <3> QED
      BY <3>1, TableIs
  <2>3. DiskTypes
    BY TypesAre
  <2> QED
    BY <2>1, <2>2, <2>3, TableIs DEF DiskTypes
<1>5. Rooted(disk.entries)'
  <2>1. CASE LookForRoot /\ Root \notin disk.entries
    BY <1>2, <2>1 DEF Rooted
  <2>2. CASE Install
    <3>1. disk.entries = {Root} \cup {Table[n] : n \in 1..(next - 1)}
      BY <1>4, <2>2 DEF Boot
    <3>2. Parent[Table[next]] \in disk.entries
      BY <1>4, <2>2, <3>1, TableAssumption
    <3> QED
      BY <1>4, <2>2, <3>2 DEF Rooted, Boot
  <2>3. CASE Stop
    BY <2>3, StopIs, Zenon DEF Rooted
  <2>4. CASE disk'.entries = disk.entries
    BY <2>4, Zenon DEF Rooted, Boot
  <2>5. LookForRoot /\ Root \in disk.entries => disk'.entries = disk.entries
    BY <1>3 DEF files
  <2> QED
    BY <2>1, <2>2, <2>3, <2>4, <2>5, FilesStay
<1>6. ASSUME init' = "start" PROVE next' = 1 /\ (Root \in disk'.entries => Whole')
  <2>1. CASE Stop
    <3>1. CASE init \in {"install", "gone"}
      <4>1. cut'
        BY <2>1, <3>1, StopIs
      <4> QED
        BY <2>1, <4>1, StopIs DEF Whole
    <3>2. CASE init = "start"
      <4>1. disk'.entries \subseteq disk.entries
        BY <2>1, StopIs
      <4>2. ~LookForRoot /\ ~Install
        BY <1>6 DEF LookForRoot, Install
      <4> QED
        BY <2>1, <3>2, <4>1, <4>2, StopIs, WholeStays DEF Boot
    <3>3. CASE init \notin {"start", "install", "gone"}
      <4>1. ~LookForRoot /\ ~Install
        BY <3>3 DEF LookForRoot, Install
      <4> QED
        BY <2>1, <3>3, <4>1, StopIs, WholeStays DEF Boot
    <3> QED
      BY <3>1, <3>2, <3>3
  <2>2. CASE ~Stop
    <3>1. ~InitSteps
      BY <1>6 DEF InitSteps, LookForRoot, Install, PullFails, SyncInstalled, RemoveTmp, CreateTmp,
         StartServer, StartLogin
    <3>2. init = "start" /\ next' = next
      BY <1>6, <2>2, <3>1, InitStays DEF booting
    <3>3. disk'.entries = disk.entries
      BY <2>2, <3>1, FilesStay DEF InitSteps
    <3>4. ~LookForRoot /\ ~Install
      BY <3>1 DEF InitSteps
    <3> QED
      BY <3>2, <3>3, <3>4, WholeStays DEF Boot
  <2> QED
    BY <2>1, <2>2
<1>7. ASSUME init' = "install"
      PROVE  /\ disk'.entries = {Root} \cup {Table[n] : n \in 1..(next' - 1)}
             /\ valid' = {Initial}
  <2>1. ~Stop
    BY <1>7, StopIs
  <2>2. CASE LookForRoot
    <3>1. Root \notin disk.entries
      BY <1>3, <1>7, <2>2
    <3>2. {Table[n] : n \in 1..(1 - 1)} = {}
      OBVIOUS
    <3> QED
      BY <1>2, <2>2, <3>1, <3>2
  <2>3. CASE Install
    <3>1. disk.entries = {Root} \cup {Table[n] : n \in 1..(next - 1)} /\ valid = {Initial}
      BY <1>4, <2>3 DEF Boot
    <3>2. next \in Nat /\ next' - 1 = next
      BY <1>4, <2>3
    <3>3. {Table[n] : n \in 1..next} = {Table[n] : n \in 1..(next - 1)} \cup {Table[next]}
      BY <1>4, <2>3, <3>2
    <3> QED
      BY <1>4, <2>3, <3>1, <3>2, <3>3
  <2>4. CASE ~LookForRoot /\ ~Install
    <3>1. ~InitSteps
      BY <1>7, <2>4 DEF InitSteps, LookForRoot, Install, PullFails, SyncInstalled, RemoveTmp, CreateTmp,
         StartServer, StartLogin
    <3>2. init = "install" /\ next' = next
      BY <1>7, <2>1, <3>1, InitStays DEF booting
    <3>3. LineLost \/ Sync
      BY <2>1, <3>1, <3>2, OnlyInit
    <3>4. UNCHANGED <<disk, valid>>
      BY <3>3, Zenon DEF LineLost, Sync, history, files
    <3> QED
      BY <3>2, <3>4 DEF Boot
  <2> QED
    BY <2>2, <2>3, <2>4
<1>8. ASSUME init' \notin {"start", "install", "gone"} PROVE Whole'
  <2>1. ~Stop /\ ~Install
    BY <1>4, <1>8, StopIs
  <2>2. CASE LookForRoot
    <3>1. Root \in disk.entries
      BY <1>2, <1>8, <2>2
    <3>2. Whole /\ UNCHANGED <<disk, stable, cut>>
      BY <1>3, <2>2, <3>1 DEF files
    <3> QED
      BY <3>2, Zenon DEF Whole, Entries
  <2>3. CASE SyncInstalled
    <3>1. init = "install" /\ next > Len(Table) /\ stable' = Synced /\ UNCHANGED <<disk, cut>>
      BY <2>3 DEF SyncInstalled, history
    <3>2. next = Len(Table) + 1
      BY <1>1, <3>1, TableIs DEF InitTypes
    <3>3. next - 1 = Len(Table)
      BY <3>2, TableIs
    <3>4. disk.entries = {Root} \cup {Table[n] : n \in 1..Len(Table)}
      BY <3>1, <3>3 DEF Boot
    <3>5. disk.entries = Entries
      BY <1>1, <3>4, TableIs
    <3>6. stable'.entries = disk.entries /\ disk'.entries = disk.entries
      BY <3>1 DEF Synced
    <3> QED
      BY <3>5, <3>6, Zenon DEF Whole, Entries
  <2>4. CASE ~LookForRoot /\ ~SyncInstalled
    <3>1. init \notin {"start", "install", "gone"}
      <4>1. CASE InitSteps
        BY <1>8, <2>1, <2>4, <4>1 DEF InitSteps, PullFails, RemoveTmp, CreateTmp, StartServer, StartLogin
      <4>2. CASE ~InitSteps
        BY <1>8, <2>1, <4>2, InitStays DEF booting
      <4> QED
        BY <4>1, <4>2
    <3> QED
      BY <2>1, <2>4, <3>1, WholeStays DEF Boot
  <2> QED
    BY <2>2, <2>3, <2>4
<1>9. ASSUME init' \in {"syncsvr", "pwdsvr", "login", "run"} PROVE disk'.tmp = "new"
  <2>1. CASE CreateTmp
    <3>1. disk' = [disk EXCEPT !.tmp = "new"] /\ DiskTypes
      BY <2>1, TypesAre DEF CreateTmp, SetTmp
    <3> QED
      BY <3>1 DEF DiskTypes
  <2>2. CASE ~CreateTmp
    <3>1. ~Stop /\ ~RemoveTmp
      BY <1>9, StopIs DEF RemoveTmp
    <3>2. init \in {"syncsvr", "pwdsvr", "login", "run"}
      <4>1. CASE InitSteps
        BY <1>9, <2>2, <4>1 DEF InitSteps, LookForRoot, Install, PullFails, SyncInstalled, RemoveTmp,
           StartServer, StartLogin
      <4>2. CASE ~InitSteps
        BY <1>9, <3>1, <4>2, InitStays DEF booting
      <4> QED
        BY <4>1, <4>2
    <3> QED
      BY <2>2, <3>1, <3>2, FilesStay DEF Boot
  <2> QED
    BY <2>1, <2>2
<1> QED
  BY <1>5, <1>6, <1>7, <1>8, <1>9 DEF Boot

-----------------------------------------------------------------------------
(* login, the shell and its jobs.                                           *)

\* Who changes what of them.
LEMMA ProcessesStay ==
  ASSUME Next
  PROVE  /\ \/ Stop \/ StartLogin \/ LoginSteps \/ LoginName \/ LoginPassword
            \/ UNCHANGED login
         /\ Stop \/ LoginWaits \/ ShellExits \/ UNCHANGED ended
         /\ \/ Stop \/ LoginRunsShell \/ ShellSteps \/ ShellExits \/ ShellWaitsFor \/ ShellRuns
            \/ Match \/ Write \/ Interrupt \/ (\E j \in Jobs : JobStep(j))
            \/ UNCHANGED <<shell, jobs>>
         /\ \/ Stop \/ ShellRuns \/ Match \/ Write \/ Interrupt \/ (\E j \in Jobs : JobStep(j))
            \/ UNCHANGED jobs
<1>1. InitSteps => StartLogin \/ UNCHANGED login
  BY Zenon DEF InitSteps, LookForRoot, Install, PullFails, SyncInstalled, RemoveTmp, CreateTmp, StartServer
<1>2. InitSteps => UNCHANGED <<ended, shell, jobs>>
  BY Zenon DEF InitSteps, LookForRoot, Install, PullFails, SyncInstalled, RemoveTmp, CreateTmp, StartServer,
     StartLogin
<1>3. LoginSteps => (LoginWaits \/ UNCHANGED ended) /\ (LoginRunsShell \/ UNCHANGED shell) /\ UNCHANGED jobs
  BY Zenon DEF LoginSteps, LoginPrompts, LoginChecks, LoginRunsShell, LoginWaits
<1>4. LoginName \/ LoginPassword => UNCHANGED <<ended, shell, jobs>>
  BY Zenon DEF LoginName, LoginPassword
<1>5. ShellSteps \/ ShellWaitsFor \/ ShellRuns => UNCHANGED <<login, ended>>
  BY Zenon DEF ShellSteps, ShellPrompts, ShellEnlists, ShellWait, ShellWaitsFor, ShellRuns
<1>6. ShellExits => UNCHANGED login
  BY Zenon DEF ShellExits
<1>7. ShellSteps \/ ShellExits \/ ShellWaitsFor => UNCHANGED jobs
  BY Zenon DEF ShellSteps, ShellPrompts, ShellEnlists, ShellWait, ShellExits, ShellWaitsFor
<1>8. PwdSvr => UNCHANGED <<login, ended>> /\ (Match \/ Write \/ UNCHANGED <<shell, jobs>>)
  BY Zenon DEF PwdSvr, Match, Open, Write
<1>9. LineLost \/ Sync => UNCHANGED <<login, ended, shell, jobs>>
  BY Zenon DEF LineLost, Sync
<1>10. Interrupt => UNCHANGED <<login, ended>>
  BY Zenon DEF Interrupt
<1>11. \A j \in Jobs : JobStep(j) => UNCHANGED <<login, ended>>
  BY Zenon DEF JobStep, Finish, PasswdStarts, PasswdName, PasswdOld, PasswdNew, PasswdAgain, PasswdGivesUp
<1> QED
  BY <1>1, <1>2, <1>3, <1>4, <1>5, <1>6, <1>7, <1>8, <1>9, <1>10, <1>11, Steps, Zenon

\* A passwd goes on.
Advances(j) ==
  \/ jobs[j].pc = "start" /\ jobs[j].fg /\ jobs' = [jobs EXCEPT ![j].pc = "name"] /\ UNCHANGED asks
  \/ jobs[j].pc = "name" /\ jobs' = [jobs EXCEPT ![j].pc = "old"] /\ UNCHANGED asks
  \/ /\ jobs[j].pc = "old" /\ UNCHANGED asks
     /\ \E p \in Pwds : jobs' = [jobs EXCEPT ![j].pc = "new", ![j].old = p]
  \/ /\ jobs[j].pc = "new" /\ UNCHANGED asks
     /\ \E p \in Pwds : jobs' = [jobs EXCEPT ![j].pc = "again", ![j].new = p]
  \/ jobs[j].pc = "again" /\ jobs' = [jobs EXCEPT ![j].pc = "rpc"] /\ AskChange(j)

\* What a job that is alive does: it ends, or goes on.
LEMMA JobStepIs ==
  ASSUME NEW j \in Jobs, JobStep(j)
  PROVE  /\ Live(j) /\ UNCHANGED <<pwdsvr, valid, disk, torn>>
         /\ \/ Ends(j) /\ jobs[j].pc # "rpc" /\ UNCHANGED asks
            \/ UNCHANGED shell /\ Advances(j)
<1>1. \A x : x = "start" \/ x \in {"name", "old", "new", "again"} => x # "rpc"
  OBVIOUS
<1>2. jobs[j].pc = "again" => jobs[j].pc # "rpc"
  OBVIOUS
<1> QED
  BY <1>1, <1>2, Zenon DEF JobStep, Finish, PasswdStarts, PasswdName, PasswdOld, PasswdNew, PasswdAgain,
     PasswdGivesUp, Goto, At, Advances, files, passwords, history

\* It remains alive, and in the foreground if it was, and asks when it has both passwords.
LEMMA AdvancesIs ==
  ASSUME Types, NEW j \in Jobs, Live(j), Advances(j)
  PROVE  /\ \A i \in Jobs : i # j => jobs'[i] = jobs[i]
         /\ jobs'[j] # NoJob /\ jobs'[j].fg = jobs[j].fg /\ jobs[j].fg /\ jobs[j].pc # "rpc"
         /\ \/ jobs'[j].pc # "rpc" /\ UNCHANGED asks
            \/ /\ jobs'[j].pc = "rpc" /\ jobs[j].pc = "again"
               /\ AskChange(j) /\ jobs'[j].new = jobs[j].new
<1>1. jobs \in [Jobs -> JobType \cup {NoJob}] /\ jobs[j] \in JobType /\ JobOK(j)
  BY LiveIs DEF Types
<1>2. jobs[j].pc # "start" => jobs[j].fg
  BY <1>1 DEF JobType, JobOK
<1>3. \A x : x.pc \in AskingPcs => x # NoJob
  BY DEF NoJob, AskingPcs
<1>4. CASE jobs[j].pc = "start" /\ jobs[j].fg /\ jobs' = [jobs EXCEPT ![j].pc = "name"] /\ UNCHANGED asks
  <2>1. /\ \A i \in Jobs : i # j => jobs'[i] = jobs[i]
        /\ jobs'[j].pc = "name" /\ jobs'[j].fg = jobs[j].fg
    BY <1>1, <1>4 DEF JobType
  <2>2. jobs'[j] # NoJob
    BY <2>1 DEF NoJob
  <2>3. jobs[j].fg /\ jobs[j].pc # "rpc" /\ (jobs[j].pc = "again" => jobs'[j].pc = "rpc")
    BY <1>4, <2>1
  <2>4. jobs'[j].pc # "rpc" \/ jobs[j].pc = "again"
    BY <1>4, <2>1
  <2> QED
    BY <1>4, <2>1, <2>2, <2>3, <2>4, Zenon
<1>5. CASE jobs[j].pc = "name" /\ jobs' = [jobs EXCEPT ![j].pc = "old"] /\ UNCHANGED asks
  <2>1. /\ \A i \in Jobs : i # j => jobs'[i] = jobs[i]
        /\ jobs'[j].pc = "old" /\ jobs'[j].fg = jobs[j].fg
    BY <1>1, <1>5 DEF JobType
  <2>2. jobs'[j] # NoJob
    BY <2>1 DEF NoJob
  <2>3. jobs[j].fg /\ jobs[j].pc # "rpc" /\ (jobs[j].pc = "again" => jobs'[j].pc = "rpc")
    BY <1>2, <1>5, <2>1
  <2>4. jobs'[j].pc # "rpc" \/ jobs[j].pc = "again"
    BY <1>5, <2>1
  <2> QED
    BY <1>5, <2>1, <2>2, <2>3, <2>4, Zenon
<1>6. CASE /\ jobs[j].pc = "old" /\ UNCHANGED asks
           /\ \E p \in Pwds : jobs' = [jobs EXCEPT ![j].pc = "new", ![j].old = p]
  <2>1. /\ \A i \in Jobs : i # j => jobs'[i] = jobs[i]
        /\ jobs'[j].pc = "new" /\ jobs'[j].fg = jobs[j].fg
    BY <1>1, <1>6 DEF JobType
  <2>2. jobs'[j] # NoJob
    BY <2>1 DEF NoJob
  <2>3. jobs[j].fg /\ jobs[j].pc # "rpc" /\ (jobs[j].pc = "again" => jobs'[j].pc = "rpc")
    BY <1>2, <1>6, <2>1
  <2>4. jobs'[j].pc # "rpc" \/ jobs[j].pc = "again"
    BY <1>6, <2>1
  <2> QED
    BY <1>6, <2>1, <2>2, <2>3, <2>4, Zenon
<1>7. CASE /\ jobs[j].pc = "new" /\ UNCHANGED asks
           /\ \E p \in Pwds : jobs' = [jobs EXCEPT ![j].pc = "again", ![j].new = p]
  <2>1. /\ \A i \in Jobs : i # j => jobs'[i] = jobs[i]
        /\ jobs'[j].pc = "again" /\ jobs'[j].fg = jobs[j].fg
    BY <1>1, <1>7 DEF JobType
  <2>2. jobs'[j] # NoJob
    BY <2>1 DEF NoJob
  <2>3. jobs[j].fg /\ jobs[j].pc # "rpc" /\ (jobs[j].pc = "again" => jobs'[j].pc = "rpc")
    BY <1>2, <1>7, <2>1
  <2>4. jobs'[j].pc # "rpc" \/ jobs[j].pc = "again"
    BY <1>7, <2>1
  <2> QED
    BY <1>7, <2>1, <2>2, <2>3, <2>4, Zenon
<1>8. CASE jobs[j].pc = "again" /\ jobs' = [jobs EXCEPT ![j].pc = "rpc"] /\ AskChange(j)
  <2>1. /\ \A i \in Jobs : i # j => jobs'[i] = jobs[i]
        /\ jobs'[j].pc = "rpc" /\ jobs'[j].fg = jobs[j].fg /\ jobs'[j].new = jobs[j].new
    BY <1>1, <1>8 DEF JobType
  <2>2. jobs'[j] # NoJob
    BY <2>1 DEF NoJob
  <2>3. jobs[j].fg /\ jobs[j].pc # "rpc" /\ (jobs[j].pc = "again" => jobs'[j].pc = "rpc")
    BY <1>2, <1>8, <2>1
  <2>4. jobs'[j].pc # "rpc" \/ jobs[j].pc = "again"
    BY <1>8, <2>1
  <2> QED
    BY <1>8, <2>1, <2>2, <2>3, <2>4, Zenon
<1> QED
  BY <1>4, <1>5, <1>6, <1>7, <1>8 DEF Advances

\* A job ends at each answer to one that waits, and at <ctrl>C.
LEMMA MatchIs ==
  ASSUME Types, Match
  PROVE  /\ pwdsvr.pc = "idle" /\ asks # <<>> /\ asks' = Tail(asks) /\ Head(asks) = asks[1]
         /\ asks[1] \in Request /\ UNCHANGED <<torn, disk, echo, stuck>>
         /\ \/ /\ pwdsvr' = [pc |-> "open", req |-> asks[1]] /\ Matches(asks[1])
               /\ UNCHANGED <<jobs, shell, valid>>
            \/ /\ UNCHANGED <<pwdsvr, valid>>
               /\ \/ At(asks[1].src, "rpc") /\ Ends(asks[1].src)
                  \/ ~At(asks[1].src, "rpc") /\ UNCHANGED <<jobs, shell>>
<1>1. /\ pwdsvr.pc = "idle" /\ asks # <<>> /\ asks' = Tail(asks) /\ UNCHANGED <<torn, disk, echo, stuck>>
      /\ \/ /\ pwdsvr' = [pc |-> "open", req |-> Head(asks)] /\ Matches(Head(asks))
            /\ UNCHANGED <<jobs, shell, valid>>
         \/ UNCHANGED pwdsvr /\ Respond(Head(asks), FALSE)
  BY Zenon DEF Match, files, terminal
<1>2. Head(asks) \in Request /\ Head(asks) = asks[1]
  BY <1>1, RequestsAre
<1>3. Respond(Head(asks), FALSE) =>
        /\ UNCHANGED valid
        /\ \/ At(asks[1].src, "rpc") /\ Ends(asks[1].src)
           \/ ~At(asks[1].src, "rpc") /\ UNCHANGED <<jobs, shell>>
  BY <1>2, RespondIs
<1> QED
  BY <1>1, <1>2, <1>3

LEMMA WriteIs ==
  ASSUME Types, Write
  PROVE  /\ pwdsvr.pc = "write" /\ pwdsvr.req \in Request /\ pwdsvr' = Idle
         /\ Store(pwdsvr.req.new) /\ UNCHANGED <<asks, torn, echo, stuck>>
         /\ \/ /\ At(pwdsvr.req.src, "rpc") /\ Ends(pwdsvr.req.src) /\ valid' = {pwdsvr.req.new}
            \/ /\ ~At(pwdsvr.req.src, "rpc") /\ UNCHANGED <<jobs, shell, valid>>
<1>1. /\ pwdsvr.pc = "write" /\ pwdsvr' = Idle /\ Store(pwdsvr.req.new) /\ Respond(pwdsvr.req, TRUE)
      /\ UNCHANGED <<asks, torn, echo, stuck>>
  BY Zenon DEF Write, terminal
<1>2. pwdsvr.req \in Request
  BY <1>1, RequestsAre
<1> QED
  BY <1>1, <1>2, RespondIs

LEMMA InterruptIs ==
  ASSUME Interrupt
  PROVE  \E j \in Jobs :
           /\ Live(j) /\ jobs[j].fg /\ Ends(j)
           /\ valid' = IF At(j, "rpc") THEN valid \cup {jobs[j].new} ELSE valid
           /\ stuck' = (stuck \/ jobs[j].pc \in {"old", "new", "again"})
           /\ UNCHANGED <<asks, pwdsvr, echo, disk, torn>>
BY Zenon DEF Interrupt, files, passwords, terminal

\* A shell that runs is the one that did, or one that login has started.
LEMMA RunningStays ==
  ASSUME Types, Next, Running', ~Running
  PROVE  LoginRunsShell
<1>1. UNCHANGED shell => ~Running'
  BY DEF Running
<1>2. ~Stop
  BY StopIs, Zenon DEF Running
<1>3. ~(Match \/ Write \/ Interrupt \/ \E j \in Jobs : JobStep(j))
  <2>1. \A j \in Jobs : ~Ends(j)
    BY EndsIs
  <2>2. ~Match
    BY <1>1, <2>1, MatchIs DEF Request
  <2>3. ~Write
    BY <1>1, <2>1, WriteIs DEF Request
  <2>4. ~Interrupt
    BY <2>1, InterruptIs
  <2>5. \A j \in Jobs : ~JobStep(j)
    BY <1>1, <2>1, JobStepIs
  <2> QED
    BY <2>2, <2>3, <2>4, <2>5
<1> QED
  BY <1>1, <1>2, <1>3, ProcessesStay, Actors

LEMMA OneShellStep ==
  ASSUME Types, Quiet, OneShell, Next
  PROVE  OneShell'
<1>1. LoginTypes
  BY TypesAre
<1>2. CASE Stop
  <2>1. ~Running' /\ ended' = <<>>
    BY <1>2, StopIs, Zenon DEF Running
  <2> QED
    BY <2>1 DEF OneShell
<1>3. CASE StartLogin
  <2>1. ~Running /\ ended = <<>>
    BY <1>3 DEF StartLogin, Quiet, Running
  <2>2. UNCHANGED <<shell, ended>>
    BY <1>3 DEF StartLogin
  <2> QED
    BY <2>1, <2>2 DEF OneShell, Running
<1>4. CASE LoginPrompts \/ LoginChecks \/ LoginName \/ LoginPassword
  <2>1. login.pc # "wait" /\ UNCHANGED <<shell, ended>>
    BY <1>4 DEF LoginPrompts, LoginChecks, LoginName, LoginPassword
  <2> QED
    BY <2>1 DEF OneShell, Running
<1>5. CASE LoginRunsShell
  <2>1. login.pc = "shell" /\ UNCHANGED ended
        /\ \E pid : login' = [login EXCEPT !.pc = "wait", !.pid = pid]
    BY <1>5, Zenon DEF LoginRunsShell
  <2>2. login'.pc = "wait"
    BY <1>1, <2>1 DEF LoginTypes, LoginType
  <2>3. ended = <<>>
    BY <2>1 DEF OneShell
  <2> QED
    BY <2>1, <2>2, <2>3 DEF OneShell
<1>6. CASE LoginWaits
  <2>1. ended # <<>> /\ ended' = Tail(ended) /\ UNCHANGED shell
    BY <1>6 DEF LoginWaits
  <2>2. ~Running' /\ ended' = <<>>
    BY <1>1, <2>1 DEF OneShell, Running, LoginTypes
  <2> QED
    BY <2>2 DEF OneShell
<1>7. CASE ShellExits
  <2>1. Running /\ shell' = NoShell /\ ended' = Append(ended, shell.pid) /\ UNCHANGED login
    BY <1>7, Zenon DEF ShellExits, Gets
  <2>2. ended = <<>> /\ login.pc = "wait"
    BY <2>1 DEF OneShell
  <2>3. Len(ended') = 1
    BY <2>1, <2>2
  <2>4. ~Running'
    BY <2>1, Zenon DEF Running
  <2> QED
    BY <2>1, <2>2, <2>3, <2>4 DEF OneShell
<1>8. CASE UNCHANGED <<login, ended>> /\ (Running' => Running)
  BY <1>8 DEF OneShell
<1>9. \/ Stop \/ StartLogin \/ LoginPrompts \/ LoginChecks \/ LoginName \/ LoginPassword
      \/ LoginRunsShell \/ LoginWaits \/ ShellExits \/ UNCHANGED <<login, ended>>
  BY ProcessesStay DEF LoginSteps
<1>10. LoginRunsShell \/ (Running' => Running)
  BY RunningStays
<1> QED
  BY <1>2, <1>3, <1>4, <1>5, <1>6, <1>7, <1>8, <1>9, <1>10

\* A line for the shell, which is not waiting for anything: no job is in the foreground.
LEMMA NoneInForeground ==
  ASSUME Types, Foreground, shell.pc \in {"dead", "prompt", "read"}, NEW j \in Jobs
  PROVE  ~(Live(j) /\ jobs[j].fg)
BY DEF Foreground

\* What ends was, if anything, the job in the foreground.
LEMMA EndsForeground ==
  ASSUME Types, Foreground, NEW j \in Jobs, Ends(j)
  PROVE  Foreground'
<1>1. ASSUME NEW i \in Jobs, jobs'[i] # NoJob, jobs'[i].fg
      PROVE  /\ shell'.job = i
             /\ shell'.pc = "wait" \/ (shell'.pc = "started" /\ shell'.fg)
             /\ \A k \in 1..Len(shell'.events) : shell'.events[k] # i
  <2>1. i # j /\ jobs'[i] = jobs[i]
    BY <1>1, EndsIs
  <2>2. Live(i) /\ jobs[i].fg
    BY <1>1, <2>1, Zenon DEF Live
  <2>3. /\ shell.job = i
        /\ shell.pc = "wait" \/ (shell.pc = "started" /\ shell.fg)
        /\ \A k \in 1..Len(shell.events) : shell.events[k] # i
    BY <2>2 DEF Foreground
  <2> QED
    BY <2>1, <2>3, EndsIs
<1> QED
  BY <1>1, Zenon DEF Foreground, Live, NoJob

LEMMA ForegroundStep ==
  ASSUME Types, Quiet, OneShell, Foreground, Next
  PROVE  Foreground'
<1>1. ASSUME UNCHANGED shell, \A i \in Jobs : jobs'[i] # NoJob => Live(i) /\ (jobs'[i].fg => jobs[i].fg)
      PROVE  Foreground'
  BY <1>1, Zenon DEF Foreground, Live, NoJob
<1>2. ASSUME UNCHANGED jobs, \A j \in Jobs : ~(Live(j) /\ jobs[j].fg) PROVE Foreground'
  BY <1>2, Zenon DEF Foreground, Live, NoJob
<1>3. ASSUME NEW j \in Jobs, Ends(j) PROVE Foreground'
  BY <1>3, EndsForeground
<1>4. CASE UNCHANGED <<shell, jobs>>
  BY <1>1, <1>4 DEF Live
<1>5. CASE Stop
  <2>1. \A j \in Jobs : jobs'[j] = NoJob
    BY <1>5, StopIs
  <2> QED
    BY <2>1, Zenon DEF Foreground, Live, NoJob
<1>6. CASE LoginRunsShell
  <2>1. login.pc = "shell" /\ UNCHANGED jobs
    BY <1>6, Zenon DEF LoginRunsShell
  <2>2. ~Running
    BY <2>1 DEF OneShell
  <2>3. shell.pc = "dead"
    BY <2>2 DEF Running, NoShell
  <2> QED
    BY <1>2, <2>1, <2>3, NoneInForeground
<1>7. CASE ShellPrompts \/ ShellExits \/ ShellWaitsFor
  <2>1. shell.pc \in {"prompt", "read"} /\ UNCHANGED jobs
    BY <1>7 DEF ShellPrompts, ShellExits, ShellWaitsFor, Gets
  <2> QED
    BY <1>2, <2>1, NoneInForeground
<1>8. CASE ShellEnlists
  <2>1. /\ shell.pc = "started" /\ UNCHANGED jobs
        /\ shell' = [shell EXCEPT !.procs = @ \cup {shell.job}, !.fg = FALSE,
                                  !.pc = IF shell.fg THEN "wait" ELSE "prompt",
                                  !.job = IF shell.fg THEN @ ELSE None]
    BY <1>8, Zenon DEF ShellEnlists
  <2>2. /\ shell'.events = shell.events
        /\ shell.fg => shell'.pc = "wait" /\ shell'.job = shell.job
    BY <2>1, TypesAre DEF ShellTypes, ShellType
  <2>3. ASSUME NEW j \in Jobs, Live(j), jobs[j].fg
        PROVE  /\ shell'.job = j /\ shell'.pc = "wait"
               /\ \A k \in 1..Len(shell'.events) : shell'.events[k] # j
    BY <2>1, <2>2, <2>3 DEF Foreground
  <2> QED
    BY <2>1, <2>3, Zenon DEF Foreground, Live, NoJob
<1>9. CASE ShellWait
  <2>1. /\ shell.pc = "wait" /\ (WaitsForNone \/ shell.events # <<>>) /\ UNCHANGED jobs
        /\ shell' = IF WaitsForNone THEN [shell EXCEPT !.pc = "prompt"]
                    ELSE LET e == Head(shell.events)
                         IN  [shell EXCEPT !.procs = @ \ {e}, !.events = Tail(@),
                                           !.pc = IF e = shell.job THEN "prompt" ELSE "wait",
                                           !.job = IF e = shell.job THEN None ELSE @]
    BY <1>9, Zenon DEF ShellWait
  <2>2. ASSUME NEW j \in Jobs, Live(j), jobs[j].fg
        PROVE  /\ shell'.job = j /\ shell'.pc = "wait"
               /\ \A k \in 1..Len(shell'.events) : shell'.events[k] # j
    <3>1. shell.job = j /\ \A k \in 1..Len(shell.events) : shell.events[k] # j
      BY <2>2 DEF Foreground
    <3>2. ~WaitsForNone
      BY <3>1, PidAssumption DEF WaitsForNone
    <3>3. shell.events # <<>> /\ shell.events \in Seq(Jobs) /\ shell \in ShellType
      BY <2>1, <3>2, TypesAre DEF ShellTypes, ShellType
    <3> DEFINE e == Head(shell.events)
    <3>4. e # j
      <4>1. e = shell.events[1] /\ 1 \in 1..Len(shell.events)
        BY <3>3
      <4> QED
        BY <3>1, <4>1
    <3> HIDE DEF e
    <3>5. shell' = [shell EXCEPT !.procs = @ \ {e}, !.events = Tail(@),
                                 !.pc = IF e = shell.job THEN "prompt" ELSE "wait",
                                 !.job = IF e = shell.job THEN None ELSE @]
      BY <2>1, <3>2 DEF e
    <3>6. shell'.events = Tail(shell.events) /\ shell'.pc = "wait" /\ shell'.job = j
      BY <3>1, <3>3, <3>4, <3>5 DEF ShellType
    <3>7. \A k \in 1..Len(Tail(shell.events)) :
            k + 1 \in 1..Len(shell.events) /\ Tail(shell.events)[k] = shell.events[k + 1]
      BY <3>3
    <3> QED
      BY <3>1, <3>6, <3>7
  <2> QED
    BY <2>1, <2>2, Zenon DEF Foreground, Live, NoJob
<1>10. CASE ShellRuns
  <2>1. shell.pc = "read"
    BY <1>10 DEF ShellRuns, Gets
  <2>2. PICK kind \in Program, fg \in BOOLEAN :
          \/ shell' = [shell EXCEPT !.pc = "prompt"] /\ UNCHANGED jobs
          \/ \E j \in Unused : /\ SpawnExec(j, kind, fg)
                               /\ shell' = [shell EXCEPT !.pc = "started", !.job = j, !.fg = fg]
    <3>1. PICK kind \in Program, fg \in BOOLEAN :
            \/ shell' = [shell EXCEPT !.pc = "prompt"] /\ UNCHANGED jobs
            \/ LET j == CHOOSE i \in Unused : TRUE IN
                 /\ Unused # {} /\ SpawnExec(j, kind, fg)
                 /\ shell' = [shell EXCEPT !.pc = "started", !.job = j, !.fg = fg]
      BY <1>10, Zenon DEF ShellRuns, Program
    <3>2. Unused # {} => (CHOOSE i \in Unused : TRUE) \in Unused
      OBVIOUS
    <3> QED
      BY <3>1, <3>2, Zenon
  <2>3. CASE UNCHANGED jobs
    BY <1>2, <2>1, <2>3, NoneInForeground
  <2>4. ASSUME NEW j \in Unused, SpawnExec(j, kind, fg),
               shell' = [shell EXCEPT !.pc = "started", !.job = j, !.fg = fg]
        PROVE  Foreground'
    <3>1. j \in Jobs /\ j \notin ToSet(shell.events)
      BY DEF Unused
    <3>2. shell \in ShellType
      BY TypesAre DEF ShellTypes
    <3>3. \A k \in 1..Len(shell.events) : shell.events[k] # j
      BY <3>1, <3>2 DEF ToSet, ShellType
    <3>4. shell'.job = j /\ shell'.pc = "started" /\ shell'.fg = fg /\ shell'.events = shell.events
      BY <2>4, <3>2 DEF ShellType
    <3> DEFINE job == [NoJob EXCEPT !.kind = kind, !.owner = shell.pid, !.fg = fg, !.pc = "start"]
    <3>5. job.fg = fg
      BY DEF NoJob
    <3> HIDE DEF job
    <3>6. \A i \in Jobs : jobs'[i] = IF i = j THEN job ELSE jobs[i]
      BY <2>4, TypesAre DEF SpawnExec, JobTypes, job
    <3>7. ASSUME NEW i \in Jobs, jobs'[i] # NoJob, jobs'[i].fg
          PROVE  i = j /\ fg
      BY <2>1, <3>5, <3>6, <3>7, NoneInForeground DEF Live
    <3>8. ASSUME NEW i \in Jobs, jobs'[i] # NoJob, jobs'[i].fg
          PROVE  /\ shell'.job = i
                 /\ shell'.pc = "started" /\ shell'.fg
                 /\ \A k \in 1..Len(shell'.events) : shell'.events[k] # i
      BY <3>3, <3>4, <3>7, <3>8
    <3> QED
      BY <3>8, Zenon DEF Foreground, Live, NoJob
  <2> QED
    BY <2>2, <2>3, <2>4
<1>11. ASSUME NEW j \in Jobs, JobStep(j) PROVE Foreground'
  <2>1. CASE Ends(j)
    BY <1>3, <2>1
  <2>2. CASE UNCHANGED shell /\ Advances(j)
    <3>1. Live(j)
      BY <1>11, JobStepIs
    <3>2. \A i \in Jobs : jobs'[i] # NoJob => Live(i) /\ (jobs'[i].fg => jobs[i].fg)
      <4>1. \A i \in Jobs : i # j => jobs'[i] = jobs[i]
        BY <2>2, <3>1, AdvancesIs
      <4>2. jobs'[j].fg = jobs[j].fg
        BY <2>2, <3>1, AdvancesIs
      <4> QED
        BY <3>1, <4>1, <4>2 DEF Live
    <3> QED
      BY <1>1, <2>2, <3>2
  <2> QED
    BY <1>11, <2>1, <2>2, JobStepIs
<1>12. CASE Match \/ Write
  <2>1. UNCHANGED <<shell, jobs>> \/ \E j \in Jobs : Ends(j)
    BY <1>12, MatchIs, WriteIs DEF Request
  <2> QED
    BY <1>3, <1>4, <2>1
<1>13. CASE Interrupt
  BY <1>3, <1>13, InterruptIs
<1> QED
  BY <1>4, <1>5, <1>6, <1>7, <1>8, <1>9, <1>10, <1>11, <1>12, <1>13, ProcessesStay DEF ShellSteps

-----------------------------------------------------------------------------
(* The password.                                                            *)

\* Who changes the requests, the answers and what the password may be.
LEMMA PasswordsStay ==
  ASSUME Next
  PROVE  /\ Stop \/ Match \/ Open \/ Write \/ (\E j \in Jobs : JobStep(j)) \/ UNCHANGED passwords
         /\ Stop \/ LookForRoot \/ Interrupt \/ Match \/ Write \/ UNCHANGED valid
<1>1. InitSteps => UNCHANGED passwords /\ (LookForRoot \/ UNCHANGED valid)
  BY Zenon DEF history, InitSteps, LookForRoot, Install, PullFails, SyncInstalled, RemoveTmp, CreateTmp,
     StartServer, StartLogin
<1>2. LoginSteps \/ LoginName \/ LoginPassword => UNCHANGED passwords /\ UNCHANGED valid
  BY Zenon DEF history, LoginSteps, LoginPrompts, LoginChecks, LoginRunsShell, LoginWaits, LoginName,
     LoginPassword
<1>3. ShellSteps \/ ShellExits \/ ShellWaitsFor \/ ShellRuns \/ LineLost \/ Sync
        => UNCHANGED passwords /\ UNCHANGED valid
  BY Zenon DEF history, ShellSteps, ShellPrompts, ShellEnlists, ShellWait, ShellExits, ShellWaitsFor, ShellRuns,
     LineLost, Sync
<1>4. Interrupt => UNCHANGED passwords
  BY Zenon DEF Interrupt
<1>5. Open => UNCHANGED valid
  BY Zenon DEF Open, history
<1>6. \A j \in Jobs : JobStep(j) => UNCHANGED valid
  BY JobStepIs
<1> QED
  BY <1>1, <1>2, <1>3, <1>4, <1>5, <1>6, Steps, Zenon DEF PwdSvr

\* A request stays what it is if its job does, or becomes an orphan if its job ends and its
\* password is one that may be.
LEMMA RequestStays ==
  ASSUME Types, NEW r \in Request, Orphan(r) \/ Waits(r),
         \/ jobs'[r.src] = jobs[r.src] /\ (r.new \in valid => r.new \in valid')
         \/ jobs'[r.src] = NoJob /\ valid \subseteq valid' /\ (At(r.src, "rpc") => jobs[r.src].new \in valid')
  PROVE  Orphan(r)' \/ (Waits(r) /\ Waits(r)')
<1>1. CASE jobs'[r.src] = jobs[r.src] /\ (r.new \in valid => r.new \in valid')
  BY <1>1, Zenon DEF Orphan, Waits, At, Live, NoJob
<1>2. CASE jobs'[r.src] = NoJob /\ valid \subseteq valid' /\ (At(r.src, "rpc") => jobs[r.src].new \in valid')
  <2>1. r.new \in valid'
    BY <1>2 DEF Orphan, Waits
  <2> QED
    BY <1>2, <2>1, Zenon DEF Orphan, Live, NoJob
<1> QED
  BY <1>1, <1>2

\* The requests there are, all of them requests.
LEMMA AsksAre ==
  ASSUME Types
  PROVE  /\ \A i \in 1..Len(asks) : asks[i] \in Request
         /\ Len(asks) \in Nat /\ (asks = <<>> <=> Len(asks) = 0)
         /\ asks # <<>> => /\ Len(Tail(asks)) = Len(asks) - 1
                           /\ \A i \in 1..Len(Tail(asks)) : Tail(asks)[i] = asks[i + 1]
<1>1. asks \in Seq(Request)
  BY DEF Types
<1> QED
  BY <1>1

\* Two jobs in the foreground are one.
LEMMA OneInForeground ==
  ASSUME Types, Foreground, NEW i \in Jobs, NEW j \in Jobs, Live(i), Live(j), jobs[i].fg, jobs[j].fg
  PROVE  i = j
BY DEF Foreground

LEMMA WaitsIs ==
  ASSUME Types, NEW r \in Request, Waits(r)
  PROVE  r.src \in Jobs /\ Live(r.src) /\ jobs[r.src].pc = "rpc" /\ jobs[r.src].fg /\ ~Orphan(r)
<1>1. r.src \in Jobs /\ Live(r.src) /\ jobs[r.src].pc = "rpc"
  BY DEF Waits, At, Request
<1>2. jobs[r.src].fg
  BY <1>1 DEF Types, JobOK, AskingPcs
<1> QED
  BY <1>1, <1>2 DEF Orphan

LEMMA PendingStep ==
  ASSUME Types, Quiet, Foreground, Pending, Next
  PROVE  Pending'
<1> DEFINE Kept(r) == Orphan(r)' \/ (Waits(r) /\ Waits(r)')
           Asked(r) == (pwdsvr.pc # "idle" /\ r = pwdsvr.req) \/ \E i \in 1..Len(asks) : r = asks[i]
<1>1. /\ \A i \in 1..Len(asks) : asks[i] \in Request /\ (Orphan(asks[i]) \/ (Waits(asks[i]) /\ i = Len(asks)))
      /\ pwdsvr.pc # "idle" => /\ pwdsvr.req \in Request
                               /\ Orphan(pwdsvr.req) \/ (Waits(pwdsvr.req) /\ asks = <<>>)
  BY AsksAre, RequestsAre DEF Pending
<1>2. \A r \in Request : Asked(r) => Orphan(r) \/ Waits(r)
  BY <1>1
<1>3. ASSUME UNCHANGED pwdsvr, pwdsvr.pc # "idle", \A r \in Request : Asked(r) => Kept(r), asks' = <<>> \/ asks # <<>>
      PROVE  Orphan(pwdsvr.req)' \/ (Waits(pwdsvr.req)' /\ asks' = <<>>)
  <2>1. PICK r \in Request : r = pwdsvr.req
    BY <1>1, <1>3
  <2>2. Kept(r) /\ (Waits(r) => asks = <<>> /\ ~Orphan(r))
    BY <1>1, <1>3, <2>1, WaitsIs
  <2>3. Orphan(r)' \/ (Waits(r)' /\ asks' = <<>>)
    BY <1>3, <2>2
  <2> QED
    BY <1>3, <2>1, <2>3 DEF Orphan, Waits, At, Live, NoJob
<1>4. ASSUME UNCHANGED passwords, \A r \in Request : Asked(r) => Kept(r)
      PROVE  Pending'
  <2>1. asks' = asks /\ pwdsvr' = pwdsvr
    BY <1>4 DEF passwords
  <2>2. ASSUME NEW i \in 1..Len(asks)
        PROVE  Orphan(asks[i])' \/ (Waits(asks[i])' /\ i = Len(asks))
    <3>1. PICK r \in Request : r = asks[i]
      BY <1>1
    <3>2. Orphan(r)' \/ (Waits(r)' /\ i = Len(asks))
      BY <1>1, <1>4, <3>1, WaitsIs
    <3> QED
      BY <2>1, <3>1, <3>2 DEF Orphan, Waits, At, Live, NoJob
  <2>3. pwdsvr.pc # "idle" => Orphan(pwdsvr.req)' \/ (Waits(pwdsvr.req)' /\ asks' = <<>>)
    BY <1>3, <1>4, <2>1
  <2> QED
    BY <2>1, <2>2, <2>3 DEF Pending
<1>5. ASSUME asks' = Tail(asks), asks # <<>>, \A r \in Request : Asked(r) => Kept(r)
      PROVE  \A i \in 1..Len(asks') : Orphan(asks[i])' \/ (Waits(asks[i])' /\ i = Len(asks'))
  <2> SUFFICES ASSUME NEW i \in 1..Len(asks')
               PROVE  Orphan(asks[i])' \/ (Waits(asks[i])' /\ i = Len(asks'))
    OBVIOUS
  <2>1. i + 1 \in 1..Len(asks) /\ asks'[i] = asks[i + 1] /\ Len(asks') = Len(asks) - 1 /\ Len(asks) \in Nat
    BY <1>5, AsksAre
  <2>2. PICK r \in Request : r = asks[i + 1]
    BY <1>1, <2>1
  <2>3. Kept(r) /\ (Waits(r) => i + 1 = Len(asks) /\ ~Orphan(r))
    BY <1>1, <1>5, <2>1, <2>2, WaitsIs
  <2>4. i + 1 = Len(asks) => i = Len(asks')
    BY <2>1
  <2>5. Orphan(r)' \/ (Waits(r)' /\ i = Len(asks'))
    BY <2>3, <2>4
  <2>6. asks'[i] = r
    BY <2>1, <2>2
  <2> QED
    BY <2>5, <2>6 DEF Orphan, Waits, At, Live, NoJob
<1>6. ASSUME asks' = <<>>, pwdsvr'.pc = "idle" PROVE Pending'
  BY <1>6 DEF Pending
<1>7. ASSUME UNCHANGED <<jobs, valid>> PROVE \A r \in Request : Asked(r) => Kept(r)
  BY <1>2, <1>7, RequestStays
<1>8. ASSUME NEW j \in Jobs, Ends(j), valid \subseteq valid', At(j, "rpc") => jobs[j].new \in valid'
      PROVE  \A r \in Request : Asked(r) => Kept(r)
  <2> SUFFICES ASSUME NEW r \in Request, Asked(r) PROVE Kept(r)
    OBVIOUS
  <2>1. r.src \in Jobs /\ (Orphan(r) \/ Waits(r))
    BY <1>2 DEF Request
  <2>2. r.src = j \/ jobs'[r.src] = jobs[r.src]
    BY <1>8, <2>1, EndsIs
  <2>3. jobs'[j] = NoJob
    BY <1>8, EndsIs
  <2> QED
    BY <1>8, <2>1, <2>2, <2>3, RequestStays
<1> HIDE DEF Kept, Asked
<1>9. CASE Stop
  <2>1. asks' = <<>> /\ pwdsvr'.pc = "idle"
    BY <1>9, StopIs DEF Idle
  <2> QED
    BY <1>6, <2>1
<1>10. CASE LookForRoot
  <2>1. asks = <<>> /\ pwdsvr = Idle /\ UNCHANGED passwords
    BY <1>10 DEF LookForRoot, Quiet
  <2>2. asks' = <<>> /\ pwdsvr'.pc = "idle"
    BY <2>1 DEF Idle, passwords
  <2> QED
    BY <1>6, <2>2
<1>11. CASE Interrupt
  <2>1. PICK j \in Jobs : Ends(j) /\ UNCHANGED passwords
                          /\ valid' = IF At(j, "rpc") THEN valid \cup {jobs[j].new} ELSE valid
    BY <1>11, InterruptIs DEF passwords
  <2>2. valid \subseteq valid' /\ (At(j, "rpc") => jobs[j].new \in valid')
    BY <2>1
  <2> QED
    BY <1>4, <1>8, <2>1, <2>2
<1>12. CASE Match
  <2>1. /\ pwdsvr.pc = "idle" /\ asks # <<>> /\ asks' = Tail(asks) /\ asks[1] \in Request
        /\ \/ pwdsvr' = [pc |-> "open", req |-> asks[1]] /\ UNCHANGED <<jobs, valid>>
           \/ UNCHANGED <<pwdsvr, valid>> /\ At(asks[1].src, "rpc") /\ Ends(asks[1].src)
           \/ UNCHANGED <<pwdsvr, valid, jobs>>
    BY <1>12, MatchIs
  <2>2. 1 \in 1..Len(asks)
    BY <2>1, AsksAre
  <2>3. Orphan(asks[1]) \/ (Waits(asks[1]) /\ 1 = Len(asks))
    BY <1>1, <2>2
  <2>4. 1 = Len(asks) => asks' = <<>>
    <3>1. asks \in Seq(Request)
      BY DEF Types
    <3> QED
      BY <2>1, <3>1
  <2>5. CASE pwdsvr' = [pc |-> "open", req |-> asks[1]] /\ UNCHANGED <<jobs, valid>>
    <3>1. \A i \in 1..Len(asks') : Orphan(asks[i])' \/ (Waits(asks[i])' /\ i = Len(asks'))
      BY <1>5, <1>7, <2>1, <2>5
    <3>2. PICK r \in Request : r = asks[1]
      BY <2>1
    <3>3. Orphan(r)' \/ (Waits(r)' /\ asks' = <<>>)
      BY <2>3, <2>4, <2>5, <3>2 DEF Orphan, Waits, At, Live, NoJob
    <3>4. pwdsvr'.req = r
      BY <2>5, <3>2
    <3>5. Orphan(pwdsvr.req)' \/ (Waits(pwdsvr.req)' /\ asks' = <<>>)
      BY <3>3, <3>4 DEF Orphan, Waits, At, Live, NoJob
    <3> QED
      BY <3>1, <3>5, Zenon DEF Pending
  <2>6. CASE UNCHANGED <<pwdsvr, valid>> /\ At(asks[1].src, "rpc") /\ Ends(asks[1].src)
    <3>1. ~Orphan(asks[1])
      BY <2>6 DEF At, Orphan
    <3> QED
      BY <1>6, <2>1, <2>3, <2>4, <2>6, <3>1
  <2>7. CASE UNCHANGED <<pwdsvr, valid, jobs>>
    <3>1. \A i \in 1..Len(asks') : Orphan(asks[i])' \/ (Waits(asks[i])' /\ i = Len(asks'))
      BY <1>5, <1>7, <2>1, <2>7
    <3> QED
      BY <2>1, <2>7, <3>1, Zenon DEF Pending
  <2> QED
    BY <2>1, <2>5, <2>6, <2>7
<1>13. CASE Open
  <2>1. pwdsvr.pc = "open" /\ pwdsvr' = [pwdsvr EXCEPT !.pc = "write"] /\ UNCHANGED <<asks, jobs, valid>>
    BY <1>13, Zenon DEF Open, history
  <2>2. pwdsvr \in [pc : {"open", "write"}, req : Request] /\ pwdsvr.pc # "idle"
    BY <2>1, RequestsAre
  <2>3. pwdsvr'.req = pwdsvr.req
    BY <2>1, <2>2
  <2>4. Orphan(pwdsvr.req) \/ (Waits(pwdsvr.req) /\ asks = <<>>)
    BY <1>1, <2>2
  <2>5. Orphan(pwdsvr.req)' \/ (Waits(pwdsvr.req)' /\ asks' = <<>>)
    BY <2>1, <2>3, <2>4 DEF Orphan, Waits, At, Live, NoJob
  <2>6. \A i \in 1..Len(asks) : Orphan(asks[i])' \/ (Waits(asks[i])' /\ i = Len(asks))
    BY <1>1, <2>1 DEF Orphan, Waits, At, Live, NoJob
  <2> QED
    BY <2>1, <2>5, <2>6, Zenon DEF Pending
<1>14. CASE Write
  <2>1. /\ pwdsvr.pc = "write" /\ pwdsvr'.pc = "idle" /\ UNCHANGED asks
        /\ \/ At(pwdsvr.req.src, "rpc")
           \/ UNCHANGED <<jobs, valid>>
    BY <1>14, WriteIs DEF Idle
  <2>2. Orphan(pwdsvr.req) \/ (Waits(pwdsvr.req) /\ asks = <<>>)
    BY <1>1, <2>1
  <2>3. CASE At(pwdsvr.req.src, "rpc")
    <3>1. asks = <<>>
      BY <2>2, <2>3 DEF At, Orphan
    <3> QED
      BY <1>6, <2>1, <3>1
  <2>4. CASE UNCHANGED <<jobs, valid>>
    <3>1. \A i \in 1..Len(asks) : Orphan(asks[i])' \/ (Waits(asks[i])' /\ i = Len(asks))
      BY <1>1, <2>1, <2>4 DEF Orphan, Waits, At, Live, NoJob
    <3> QED
      BY <2>1, <3>1, Zenon DEF Pending
  <2> QED
    BY <2>1, <2>3, <2>4
<1>15. CASE ShellRuns
  <2>1. UNCHANGED passwords /\ UNCHANGED valid
    BY <1>15, Zenon DEF ShellRuns, history
  <2>2. ASSUME NEW r \in Request, Asked(r) PROVE jobs'[r.src] = jobs[r.src]
    <3>1. r.src \in Jobs
      BY DEF Request
    <3>2. r \in ToSet(asks) \cup {pwdsvr.req}
      BY <2>2, TypesAre DEF Asked, ToSet, ServerTypes
    <3>3. r.src \notin Unused
      BY <3>2 DEF Unused
    <3>4. UNCHANGED jobs \/ \E j \in Unused : \E job : jobs' = [jobs EXCEPT ![j] = job]
      <4>1. UNCHANGED jobs \/ \E kind, fg : Unused # {} /\ SpawnExec(CHOOSE i \in Unused : TRUE, kind, fg)
        BY <1>15, Zenon DEF ShellRuns
      <4>2. Unused # {} => (CHOOSE i \in Unused : TRUE) \in Unused
        OBVIOUS
      <4> QED
        BY <4>1, <4>2, Zenon DEF SpawnExec
    <3> QED
      BY <3>1, <3>3, <3>4, TypesAre DEF JobTypes
  <2>3. \A r \in Request : Asked(r) => Kept(r)
    BY <1>2, <2>1, <2>2, RequestStays DEF Kept
  <2> QED
    BY <1>4, <2>1, <2>3
<1>16. ASSUME NEW j \in Jobs, JobStep(j) PROVE Pending'
  <2>1. Live(j) /\ UNCHANGED <<pwdsvr, valid>>
    BY <1>16, JobStepIs
  <2>2. CASE Ends(j) /\ jobs[j].pc # "rpc" /\ UNCHANGED asks
    <3>1. ~At(j, "rpc")
      BY <2>2 DEF At
    <3> QED
      BY <1>4, <1>8, <2>1, <2>2, <3>1 DEF passwords
  <2>3. CASE Advances(j)
    <3>1. /\ \A i \in Jobs : i # j => jobs'[i] = jobs[i]
          /\ jobs'[j] # NoJob /\ jobs[j].fg /\ jobs[j].pc # "rpc"
          /\ \/ jobs'[j].pc # "rpc" /\ UNCHANGED asks
             \/ /\ jobs'[j].pc = "rpc" /\ jobs[j].pc = "again"
                /\ AskChange(j) /\ jobs'[j].new = jobs[j].new
      BY <2>1, <2>3, AdvancesIs
    <3>2. ASSUME NEW r \in Request, Asked(r) PROVE Orphan(r)
      <4>1. CASE Waits(r)
        BY <2>1, <3>1, <4>1, WaitsIs, OneInForeground
      <4> QED
        BY <1>2, <3>2, <4>1
    <3>3. ASSUME NEW r \in Request, Asked(r) PROVE Orphan(r)'
      <4>1. r.src \in Jobs /\ r.src # j /\ Orphan(r)
        BY <2>1, <3>2, <3>3 DEF Orphan, Request
      <4>2. jobs'[r.src] = jobs[r.src]
        BY <3>1, <4>1
      <4> QED
        BY <2>1, <4>1, <4>2, Zenon DEF Orphan, Live, NoJob
    <3>4. CASE UNCHANGED asks
      <4>1. \A r \in Request : Asked(r) => Kept(r)
        BY <3>3 DEF Kept
      <4> QED
        BY <1>4, <2>1, <3>4, <4>1 DEF passwords
    <3>5. CASE jobs'[j].pc = "rpc" /\ jobs[j].pc = "again" /\ AskChange(j) /\ jobs'[j].new = jobs[j].new
      <4> DEFINE new == [src |-> j, old |-> jobs[j].old, new |-> jobs[j].new]
      <4>1. asks' = Append(asks, new) /\ new.src = j /\ new.new = jobs[j].new
        BY <3>5 DEF AskChange
      <4>2. asks \in Seq(Request) /\ new \in Request
        <5>1. jobs[j].old \in Pwds /\ jobs[j].new \in Pwds
          BY <3>5 DEF Types, JobOK
        <5> QED
          BY <5>1 DEF Types, Request
      <4>3. PICK r \in Request : r = new
        BY <4>2
      <4> HIDE DEF new
      <4>4. asks' = Append(asks, r) /\ r.src = j /\ r.new = jobs[j].new
        BY <4>1, <4>3
      <4>5. Waits(r)'
        BY <3>1, <3>5, <4>4, Zenon DEF Waits, At, Live, NoJob
      <4>6. /\ Len(asks') = Len(asks) + 1 /\ asks'[Len(asks) + 1] = r
            /\ \A i \in 1..Len(asks) : asks'[i] = asks[i]
        BY <4>2, <4>4, AppendProperties
      <4>7. ASSUME NEW i \in 1..Len(asks') PROVE Orphan(asks[i])' \/ (Waits(asks[i])' /\ i = Len(asks'))
        <5>1. CASE i = Len(asks')
          <6>1. asks'[i] = r
            BY <4>6, <5>1
          <6> QED
            BY <4>5, <5>1, <6>1 DEF Waits, At, Live, NoJob
        <5>2. CASE i # Len(asks')
          <6>1. i \in 1..Len(asks) /\ asks'[i] = asks[i]
            BY <4>2, <4>6, <5>2
          <6>2. PICK q \in Request : q = asks[i]
            BY <1>1, <6>1
          <6>3. Orphan(q)'
            BY <3>3, <6>1, <6>2 DEF Asked
          <6>4. asks'[i] = q
            BY <6>1, <6>2
          <6> QED
            BY <6>3, <6>4 DEF Orphan, Live, NoJob
        <5> QED
          BY <5>1, <5>2
      <4>8. pwdsvr.pc # "idle" => Orphan(pwdsvr.req)'
        <5> SUFFICES ASSUME pwdsvr.pc # "idle" PROVE Orphan(pwdsvr.req)'
          OBVIOUS
        <5>1. PICK q \in Request : q = pwdsvr.req
          BY <1>1
        <5>2. Orphan(q)'
          BY <3>3, <5>1 DEF Asked
        <5>3. pwdsvr'.req = q
          BY <2>1, <5>1
        <5> QED
          BY <5>2, <5>3 DEF Orphan, Live, NoJob
      <4> QED
        BY <2>1, <4>7, <4>8, Zenon DEF Pending
    <3> QED
      BY <3>1, <3>4, <3>5
  <2> QED
    BY <1>16, <2>2, <2>3, JobStepIs
<1>17. CASE UNCHANGED passwords /\ UNCHANGED valid /\ UNCHANGED jobs
  BY <1>4, <1>7, <1>17
<1> QED
  BY <1>9, <1>10, <1>11, <1>12, <1>13, <1>14, <1>15, <1>16, <1>17, PasswordsStay, ProcessesStay

\* Who changes the password file, or the history of it.
LEMMA PasswordFileStays ==
  ASSUME Types, Next
  PROVE  \/ Stop \/ LookForRoot \/ Install \/ Open \/ Write
         \/ disk'.passwd = disk.passwd /\ disk'.entries = disk.entries /\ torn' = torn
<1>1. DiskTypes
  BY TypesAre
<1>2. CASE InitSteps /\ ~LookForRoot /\ ~Install
  <2>1. UNCHANGED torn /\ (UNCHANGED disk \/ \E t : SetTmp(t))
    BY <1>2, Zenon DEF history, files, InitSteps, PullFails, SyncInstalled, RemoveTmp, CreateTmp, StartServer,
       StartLogin
  <2>2. ASSUME NEW t, SetTmp(t) PROVE disk'.passwd = disk.passwd /\ disk'.entries = disk.entries
    BY <1>1, <2>2 DEF SetTmp, DiskTypes
  <2> QED
    BY <2>1, <2>2
<1>3. CASE LoginSteps \/ LoginName \/ LoginPassword
  BY <1>3, Zenon DEF history, files, LoginSteps, LoginPrompts, LoginChecks, LoginRunsShell, LoginWaits, LoginName,
     LoginPassword
<1>4. CASE ShellSteps \/ ShellExits \/ ShellWaitsFor \/ ShellRuns \/ LineLost \/ Sync
  BY <1>4, Zenon DEF history, files, ShellSteps, ShellPrompts, ShellEnlists, ShellWait, ShellExits,
     ShellWaitsFor, ShellRuns, LineLost, Sync
<1>5. CASE Interrupt \/ Match
  BY <1>5, InterruptIs, MatchIs
<1>6. ASSUME NEW j \in Jobs, JobStep(j) PROVE disk' = disk /\ torn' = torn
  BY <1>6, JobStepIs
<1> QED
  BY <1>2, <1>3, <1>4, <1>5, <1>6, Steps DEF PwdSvr

LEMMA FileStep ==
  ASSUME Types, Quiet, Boot, Pending, FileOK, Next
  PROVE  FileOK'
<1>1. DiskTypes
  BY TypesAre
<1>2. CASE Stop
  <2>1. PICK lost \in SUBSET (disk.entries \ stable.entries), line \in stable.passwd :
          disk'.entries = disk.entries \ lost /\ disk'.passwd = line
    BY <1>2, StopIs, Zenon
  <2>2. ASSUME ~torn' PROVE ~torn /\ line = disk.passwd /\ pwdsvr.pc # "write"
    <3>1. torn' = (torn \/ stable.passwd # {disk.passwd} \/ pwdsvr.pc = "write")
      BY <1>2, StopIs
    <3> QED
      BY <2>1, <2>2, <3>1
  <2>3. valid \subseteq valid'
    BY <1>2, StopIs
  <2> QED
    BY <2>1, <2>2, <2>3 DEF FileOK
<1>3. CASE LookForRoot
  <2>1. CASE Root \in disk.entries
    <3>1. UNCHANGED <<disk, valid, torn, pwdsvr>>
      BY <1>3, <2>1, Zenon DEF LookForRoot, files, passwords
    <3> QED
      BY <3>1, Zenon DEF FileOK
  <2>2. CASE Root \notin disk.entries
    <3>1. disk.entries = {}
      BY <1>1, <2>2, RootAbove DEF Boot, DiskTypes
    <3>2. disk' = [disk EXCEPT !.entries = @ \cup {Root}, !.passwd = IF Root = Passwd THEN Initial ELSE @]
      BY <1>3, <2>2 DEF LookForRoot, Installs
    <3>3. disk'.entries = {Root}
      BY <1>1, <3>1, <3>2 DEF DiskTypes
    <3>4. Passwd \notin disk'.entries
      BY <3>3 DEF Root, Passwd
    <3> QED
      BY <3>4 DEF FileOK
  <2> QED
    BY <2>1, <2>2
<1>4. CASE Install
  <2>1. /\ disk' = [disk EXCEPT !.entries = @ \cup {Table[next]},
                                !.passwd = IF Table[next] = Passwd THEN Initial ELSE @]
        /\ UNCHANGED <<valid, torn, pwdsvr>> /\ valid = {Initial}
    BY <1>4 DEF Install, Installs, history, passwords, Boot
  <2>2. /\ disk'.entries = disk.entries \cup {Table[next]}
        /\ disk'.passwd = IF Table[next] = Passwd THEN Initial ELSE disk.passwd
    BY <1>1, <2>1 DEF DiskTypes
  <2> QED
    BY <2>1, <2>2 DEF FileOK
<1>5. CASE Open
  <2>1. pwdsvr.pc = "open" /\ pwdsvr' = [pwdsvr EXCEPT !.pc = "write"]
    BY <1>5, Zenon DEF Open
  <2>2. pwdsvr \in [pc : {"open", "write"}, req : Request]
    BY <2>1, RequestsAre
  <2>3. pwdsvr'.pc = "write"
    BY <2>1, <2>2
  <2> QED
    BY <2>3 DEF FileOK
<1>6. CASE Write
  <2>1. /\ pwdsvr.pc = "write" /\ disk' = [disk EXCEPT !.passwd = pwdsvr.req.new] /\ pwdsvr.req \in Request
        /\ \/ valid' = {pwdsvr.req.new}
           \/ ~At(pwdsvr.req.src, "rpc") /\ UNCHANGED valid
    BY <1>6, WriteIs DEF Store
  <2>2. disk'.passwd = pwdsvr.req.new
    BY <1>1, <2>1 DEF DiskTypes
  <2>3. Orphan(pwdsvr.req) \/ Waits(pwdsvr.req)
    BY <2>1 DEF Pending
  <2>4. pwdsvr.req.new \in valid'
    BY <2>1, <2>3 DEF Orphan, Waits
  <2> QED
    BY <2>2, <2>4 DEF FileOK
<1>7. CASE disk'.passwd = disk.passwd /\ disk'.entries = disk.entries /\ torn' = torn
           /\ ~Stop /\ ~LookForRoot /\ ~Open /\ ~Write
  <2>1. valid \subseteq valid'
    <3>1. Interrupt => valid \subseteq valid'
      BY InterruptIs
    <3>2. Match => valid \subseteq valid'
      BY MatchIs
    <3> QED
      BY <1>7, <3>1, <3>2, PasswordsStay
  <2>2. pwdsvr'.pc # "write" => pwdsvr.pc # "write"
    <3>1. Match => pwdsvr.pc = "idle"
      BY MatchIs
    <3>2. \A j \in Jobs : JobStep(j) => UNCHANGED pwdsvr
      BY JobStepIs
    <3> QED
      BY <1>7, <3>1, <3>2, PasswordsStay DEF passwords
  <2> QED
    BY <1>7, <2>1, <2>2 DEF FileOK
<1> QED
  BY <1>2, <1>3, <1>4, <1>5, <1>6, <1>7, PasswordFileStays

-----------------------------------------------------------------------------
(* The echo of the terminal.                                                *)

\* A passwd reads a password.
Reading(j) == Live(j) /\ jobs[j].pc \in {"old", "new", "again"}

\* Who changes it, and whether a passwd was killed while it was off.
LEMMA EchoStays ==
  ASSUME Next
  PROVE  \/ Stop \/ LoginPrompts \/ LoginName \/ LoginRunsShell \/ Interrupt
         \/ (\E j \in Jobs : JobStep(j))
         \/ UNCHANGED <<echo, stuck>>
<1>1. InitSteps \/ LoginChecks \/ LoginWaits \/ LoginPassword => UNCHANGED <<echo, stuck>>
  BY Zenon DEF history, terminal, InitSteps, LookForRoot, Install, PullFails, SyncInstalled, RemoveTmp,
     CreateTmp, StartServer, StartLogin, LoginChecks, LoginWaits, LoginPassword
<1>2. ShellSteps \/ ShellExits \/ ShellWaitsFor \/ ShellRuns \/ LineLost \/ Sync \/ PwdSvr
        => UNCHANGED <<echo, stuck>>
  BY Zenon DEF history, terminal, ShellSteps, ShellPrompts, ShellEnlists, ShellWait, ShellExits, ShellWaitsFor,
     ShellRuns, LineLost, Sync, PwdSvr, Match, Open, Write
<1> QED
  BY <1>1, <1>2, Steps DEF LoginSteps

LEMMA EchoStep ==
  ASSUME Types, Quiet, EchoRestored, Next
  PROVE  EchoRestored'
<1>1. jobs \in [Jobs -> JobType \cup {NoJob}] /\ login \in LoginType
  BY DEF Types
<1>2. ASSUME echo' \/ login'.pc \notin {"name", "wait"} PROVE EchoRestored'
  BY <1>2 DEF EchoRestored
<1>3. ASSUME NEW j \in Jobs, jobs'[j] # NoJob, jobs'[j].pc \in {"old", "new", "again"} PROVE EchoRestored'
  BY <1>3, Zenon DEF EchoRestored, Live, NoJob
<1>4. ASSUME UNCHANGED <<login, echo, stuck>>,
             \A j \in Jobs : Reading(j) => jobs'[j] = jobs[j] 
      PROVE  EchoRestored'
  <2>1. CASE \E j \in Jobs : Reading(j)
    <3>1. PICK j \in Jobs : Reading(j)
      BY <2>1
    <3> QED
      BY <1>3, <1>4, <3>1 DEF Reading, Live
  <2>2. CASE ~ \E j \in Jobs : Reading(j)
    <3>1. login.pc \in {"name", "wait"} /\ ~echo => stuck
      BY <2>2, Zenon DEF EchoRestored, Reading
    <3> QED
      BY <1>4, <3>1, Zenon DEF EchoRestored
  <2> QED
    BY <2>1, <2>2
<1>5. CASE Stop
  BY <1>2, <1>5, StopIs DEF Off
<1>6. CASE LoginPrompts \/ LoginRunsShell
  BY <1>2, <1>6 DEF LoginPrompts, LoginRunsShell
<1>7. CASE LoginName \/ LoginPassword \/ LoginChecks
  <2>1. \E pc \in {"password", "prompt", "check", "shell"} :
          \/ login' = [login EXCEPT !.pc = pc]
          \/ \E p : login' = [login EXCEPT !.pc = pc, !.typed = p]
    BY <1>7 DEF LoginName, LoginPassword, LoginChecks
  <2>2. login'.pc \in {"password", "prompt", "check", "shell"}
    BY <1>1, <2>1 DEF LoginType
  <2> QED
    BY <1>2, <2>2
<1>8. CASE LoginWaits
  <2>1. \/ login' = [login EXCEPT !.pc = "prompt", !.pid = None]
        \/ login' = login
    BY <1>8, Zenon DEF LoginWaits
  <2>2. UNCHANGED <<echo, stuck, jobs>>
    BY <1>8, Zenon DEF LoginWaits, history, terminal
  <2>3. CASE login' = [login EXCEPT !.pc = "prompt", !.pid = None]
    BY <1>1, <1>2, <2>3 DEF LoginType
  <2> QED
    BY <1>4, <2>1, <2>2, <2>3
<1>9. CASE StartLogin
  <2>1. login = Off /\ (login' = login \/ login' = [login EXCEPT !.pc = "prompt"])
    BY <1>9 DEF StartLogin, Quiet
  <2>2. login'.pc \in {"off", "prompt"}
    BY <2>1 DEF Off
  <2> QED
    BY <1>2, <2>2
<1>10. CASE Interrupt
  <2>1. PICK j \in Jobs : /\ Live(j) /\ Ends(j) /\ UNCHANGED echo
                          /\ stuck' = (stuck \/ jobs[j].pc \in {"old", "new", "again"})
    BY <1>10, InterruptIs
  <2>2. \A i \in Jobs : i # j => jobs'[i] = jobs[i]
    BY <2>1, EndsIs
  <2>3. UNCHANGED login
    BY <1>10, Zenon DEF Interrupt
  <2>4. CASE Reading(j)
    <3>1. stuck'
      BY <2>1, <2>4 DEF Reading
    <3> QED
      BY <3>1 DEF EchoRestored
  <2>5. CASE ~Reading(j)
    <3>1. stuck' = stuck
      BY <2>1, <2>5, TypesAre DEF Reading, FlagTypes
    <3> QED
      BY <1>4, <2>1, <2>2, <2>3, <2>5, <3>1
  <2> QED
    BY <2>4, <2>5
<1>11. CASE Match \/ Write
  <2>1. UNCHANGED <<login, echo, stuck>>
    BY <1>11, Zenon DEF Match, Write, terminal
  <2>2. UNCHANGED jobs \/ \E j \in Jobs : At(j, "rpc") /\ Ends(j)
    BY <1>11, MatchIs, WriteIs DEF Request
  <2>3. ASSUME NEW j \in Jobs, At(j, "rpc"), Ends(j) PROVE \A i \in Jobs : Reading(i) => jobs'[i] = jobs[i]
    <3>1. ~Reading(j)
      BY <2>3 DEF Reading, At
    <3> QED
      BY <2>3, <3>1, EndsIs
  <2> QED
    BY <1>4, <2>1, <2>2, <2>3
<1>12. CASE ShellRuns
  <2>1. UNCHANGED <<login, echo, stuck>>
    BY <1>12, Zenon DEF ShellRuns, history
  <2>2. UNCHANGED jobs \/ \E j \in Unused : \E job : jobs' = [jobs EXCEPT ![j] = job]
    <3>1. UNCHANGED jobs \/ \E kind, fg : Unused # {} /\ SpawnExec(CHOOSE i \in Unused : TRUE, kind, fg)
      BY <1>12, Zenon DEF ShellRuns
    <3>2. Unused # {} => (CHOOSE i \in Unused : TRUE) \in Unused
      OBVIOUS
    <3> QED
      BY <3>1, <3>2, Zenon DEF SpawnExec
  <2>3. \A j \in Unused : ~Reading(j)
    BY DEF Unused, Reading
  <2>4. \A j \in Jobs : Reading(j) => jobs'[j] = jobs[j]
    BY <1>1, <2>2, <2>3
  <2> QED
    BY <1>4, <2>1, <2>4
<1>13. ASSUME NEW j \in Jobs, JobStep(j) PROVE EchoRestored'
  <2>1. CASE PasswdStarts(j) \/ PasswdAgain(j) \/ PasswdGivesUp(j)
    BY <1>2, <2>1 DEF PasswdStarts, PasswdAgain, PasswdGivesUp
  <2>2. CASE Finish(j)
    <3>1. UNCHANGED <<login, echo, stuck>> /\ Ends(j) /\ jobs[j].pc = "start"
      BY <2>2, Zenon DEF Finish, terminal, history, At
    <3>2. ~Reading(j)
      BY <3>1 DEF Reading
    <3> QED
      BY <1>4, <3>1, <3>2, EndsIs
  <2>3. CASE PasswdName(j) \/ PasswdOld(j) \/ PasswdNew(j)
    <3>1. /\ Live(j)
          /\ \/ jobs' = [jobs EXCEPT ![j].pc = "old"]
             \/ \E p : jobs' = [jobs EXCEPT ![j].pc = "new", ![j].old = p]
             \/ \E p : jobs' = [jobs EXCEPT ![j].pc = "again", ![j].new = p]
      BY <2>3, Zenon DEF PasswdName, PasswdOld, PasswdNew, Goto, At
    <3>2. jobs[j] \in JobType
      BY <3>1, LiveIs
    <3>3. jobs'[j].pc \in {"old", "new", "again"}
      BY <1>1, <3>1, <3>2 DEF JobType
    <3>4. jobs'[j] # NoJob
      BY <3>3 DEF NoJob
    <3> QED
      BY <1>3, <3>3, <3>4
  <2> QED
    BY <1>13, <2>1, <2>2, <2>3 DEF JobStep
<1>14. CASE UNCHANGED <<login, echo, stuck, jobs>>
  BY <1>4, <1>14
<1> QED
  BY <1>5, <1>6, <1>7, <1>8, <1>9, <1>10, <1>11, <1>12, <1>13, <1>14, EchoStays, ProcessesStay DEF LoginSteps

-----------------------------------------------------------------------------
(* The theorems.                                                            *)

LEMMA InvInit == Init => Inv /\ EchoRestored
<1> SUFFICES ASSUME Init PROVE Inv /\ EchoRestored
  OBVIOUS
<1>1. /\ disk = [entries |-> {}, passwd |-> Empty, tmp |-> None]
      /\ stable = [entries |-> {}, passwd |-> {Empty}]
      /\ valid = {Initial} /\ torn = FALSE /\ cut = FALSE /\ stuck = FALSE
      /\ init = "start" /\ next = 1 /\ login = Off /\ ended = <<>> /\ shell = NoShell
      /\ jobs = [j \in Jobs |-> NoJob] /\ asks = <<>> /\ pwdsvr = Idle /\ echo = FALSE
  BY DEF Init, Start
<1>2. Types
  <2>1. DiskTypes
    BY <1>1, PasswordsAre DEF DiskTypes
  <2>2. InitTypes
    <3>1. 1 \in 1..(Len(Table) + 1)
      BY TableIs
    <3> QED
      BY <1>1, <3>1 DEF InitTypes
  <2>3. LoginTypes
    BY <1>1 DEF LoginTypes, LoginType, Off
  <2>4. ShellTypes
    <3>1. NoShell \in ShellType /\ NoShell.pc = "dead"
      BY DEF NoShell, ShellType
    <3> QED
      BY <1>1, <3>1 DEF ShellTypes, Running
  <2>5. JobTypes
    BY <1>1 DEF JobTypes, JobOK, NoJob, AskingPcs
  <2>6. ServerTypes
    <3>1. asks \in Seq(Request)
      BY <1>1
    <3> QED
      BY <1>1, <3>1, Zenon DEF ServerTypes
  <2>7. FlagTypes
    BY <1>1, PasswordsAre DEF FlagTypes
  <2> QED
    BY <2>1, <2>2, <2>3, <2>4, <2>5, <2>6, <2>7, TypesAre
<1>3. \A j \in Jobs : ~Live(j)
  BY <1>1 DEF Live
<1>4. Quiet
  BY <1>1, <1>3 DEF Quiet
<1>5. disk.entries = {}
  BY <1>1
<1>6. Boot
  <2>1. Rooted(disk.entries)
    BY <1>5 DEF Rooted
  <2> QED
    BY <1>1, <1>5, <2>1 DEF Boot
<1>7. OneShell
  BY <1>1 DEF OneShell, Running
<1>8. Foreground
  BY <1>3 DEF Foreground
<1>9. Pending
  BY <1>1 DEF Pending, Idle
<1>10. FileOK
  BY <1>5 DEF FileOK
<1>11. EchoRestored
  BY <1>1 DEF EchoRestored, Off
<1> QED
  BY <1>2, <1>4, <1>6, <1>7, <1>8, <1>9, <1>10, <1>11 DEF Inv

LEMMA InvStep ==
  ASSUME Inv, EchoRestored, [Next]_vars
  PROVE  Inv' /\ EchoRestored'
<1>1. CASE Next
  BY <1>1, TypesStep, QuietStep, BootStep, OneShellStep, ForegroundStep, PendingStep, FileStep, EchoStep DEF Inv
<1>2. CASE UNCHANGED vars
  <2>1. UNCHANGED <<disk, stable, init, next, login, ended, shell, jobs, asks, pwdsvr, echo, valid, torn,
                    cut, stuck>>
    BY <1>2, Zenon DEF vars, files, booting, passwords, terminal, history
  <2>2. Types'
    <3>1. DiskTypes /\ InitTypes /\ LoginTypes /\ ShellTypes /\ JobTypes /\ ServerTypes /\ FlagTypes
      BY TypesAre DEF Inv
    <3>2. DiskTypes' /\ InitTypes' /\ LoginTypes'
      BY <2>1, <3>1, Zenon DEF DiskTypes, InitTypes, LoginTypes
    <3>3. ShellTypes' /\ JobTypes'
      BY <2>1, <3>1, Zenon DEF ShellTypes, Running, JobTypes, JobOK
    <3>4. ServerTypes' /\ FlagTypes'
      BY <2>1, <3>1, Zenon DEF ServerTypes, FlagTypes
    <3> QED
      BY <3>2, <3>3, <3>4 DEF Types, DiskTypes, InitTypes, LoginTypes, ShellTypes, JobTypes, ServerTypes,
         FlagTypes
  <2>3. Quiet' /\ Boot' /\ OneShell' /\ Foreground'
    BY <2>1, Zenon DEF Inv, Quiet, Boot, OneShell, Foreground, Live, Running, Rooted, Whole
  <2>4. Pending' /\ FileOK' /\ EchoRestored'
    BY <2>1, Zenon DEF Inv, Pending, FileOK, EchoRestored, Orphan, Waits, At, Live
  <2> QED
    BY <2>2, <2>3, <2>4 DEF Inv
<1> QED
  BY <1>1, <1>2

\* The inductive invariant of the sessions: what init has done, one shell and one job in the
\* foreground, and what the requests that wait for the password server may do to the password.
THEOREM InvCorrect == Spec => [](Inv /\ EchoRestored)
BY InvInit, InvStep, PTL DEF Spec

\* The records of login, the shell, its jobs and the password server are what they should be.
THEOREM TypesCorrect == Spec => []Types
<1>1. Inv => Types
  BY DEF Inv
<1> QED
  BY <1>1, InvCorrect, PTL

\* Whatever the table of files is, and however often the machine stops: when a user can log in,
\* /tmp is one of this boot, and everything is installed unless a stop has cut that short.
THEOREM InstalledCorrect == Spec => []Installed
<1>1. ASSUME Inv PROVE Installed
  <2>1. login.pc # "off" => init = "run"
    BY <1>1 DEF Inv, Quiet, Off
  <2>2. init = "run" => disk.tmp = "new" /\ Whole
    BY <1>1 DEF Inv, Boot
  <2> QED
    BY <2>1, <2>2 DEF Installed, Whole
<1> QED
  BY <1>1, InvCorrect, PTL

\* However login, shells and any number of programs use the terminal, it is without echo only
\* while a password is asked for, or because a passwd was killed that did.
THEOREM EchoRestoredCorrect == Spec => []EchoRestored
BY InvCorrect, PTL

\* login refuses the password of which the user was told that it is the one only while the
\* file is being rewritten, or after a stop that hit one which was not synced.
THEOREM PasswordKeptCorrect == Spec => PasswordKept
<1>1. ASSUME Inv, [Next]_vars
      PROVE  [login.pc = "check" /\ login'.pc = "prompt" /\ valid = {login.typed}
                => torn \/ pwdsvr.pc = "write"]_vars
  <2> SUFFICES ASSUME Next, login.pc = "check", login'.pc = "prompt", valid = {login.typed}
               PROVE  torn \/ pwdsvr.pc = "write"
    BY <1>1
  <2>1. login' # login
    <3>1. login'.pc # login.pc
      OBVIOUS
    <3> QED
      BY <3>1
  <2>2. ~Stop
    <3>1. Stop => login' = Off
      BY StopIs, Zenon
    <3>2. Off.pc = "off"
      BY DEF Off
    <3> QED
      BY <3>1, <3>2
  <2>3. ~StartLogin
    BY <1>1 DEF StartLogin, Inv, Quiet, Off
  <2>4. LoginChecks
    BY <2>1, <2>2, <2>3, ProcessesStay
       DEF LoginSteps, LoginPrompts, LoginRunsShell, LoginWaits, LoginName, LoginPassword
  <2>5. Refused
    <3>1. login' = [login EXCEPT !.pc = IF Refused THEN "prompt" ELSE "shell", !.typed = None]
      BY <2>4 DEF LoginChecks
    <3>2. login \in LoginType
      BY <1>1 DEF Inv, Types
    <3> QED
      BY <3>1, <3>2 DEF LoginType
  <2>6. valid \subseteq Pwds
    BY <1>1 DEF Inv, Types, FlagTypes
  <2>7. login.typed # Empty
    BY <1>1, <2>6, PasswordAssumption
  <2> QED
    BY <1>1, <2>5, <2>7 DEF Inv, FileOK, Refused, Accepts
<1> QED
  BY <1>1, InvCorrect, PTL DEF Spec, PasswordKept
=============================================================================
