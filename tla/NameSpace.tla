------------------------------ MODULE NameSpace ------------------------------
(***************************************************************************)
(* What the directory server promises: directories are sets of names, each  *)
(* of which stands for one file; names are added, removed and looked up one *)
(* at a time, and an answer other than an error is about the names that are *)
(* there when it is given.  Programs delete directories and empty them behind *)
(* its back; after that nothing is promised of those.                       *)
(***************************************************************************)
EXTENDS Naturals

CONSTANTS
  Names,   \* all names
  Fids,    \* all files
  Root, Self, Parent,
  Installed  \* the directories there are in the root, as triples

VARIABLES
  names,   \* the triples <<directory, name, file>>
  answer,  \* of the directory server: a request, and whether it went well
  gone     \* directories that were deleted or emptied

vars == <<names, answer, gone>>

NoAnswer == [ok |-> FALSE]
Answered(op, d, n, f) == [ok |-> TRUE, op |-> op, dir |-> d, name |-> n, fid |-> f]

Dots(f, d) == {<<f, Self, f>>, <<f, Parent, d>>}

Init ==
  /\ names = Dots(Root, Root) \cup Installed \cup UNION {Dots(t[3], Root) : t \in Installed}
  /\ answer = NoAnswer /\ gone = {}

Lookup(d, n, f) ==
  /\ answer' = Answered("lookup", d, n, f)
  /\ <<d, n, f>> \in names
  /\ UNCHANGED <<names, gone>>

Insert(d, n, f) ==
  /\ answer' = Answered("insert", d, n, f)
  /\ \A g \in Fids : <<d, n, g>> \notin names
  /\ names' = names \cup {<<d, n, f>>}
  /\ UNCHANGED gone

\* A name that is not there, or stands for another file, is as good as removed.
Remove(d, n, f) ==
  /\ answer' = Answered("remove", d, n, f)
  /\ names' = names \ {<<d, n, f>>}
  /\ UNCHANGED gone

Refuse == answer' = NoAnswer /\ UNCHANGED <<names, gone>>

\* A program makes the directory f, which is empty but for itself and its parent, or deletes it
\* or empties it.
Make(f, d) ==
  /\ UNCHANGED <<answer, gone>>
  /\ \A t \in names : t[1] # f
  /\ names' = names \cup Dots(f, d)
Drop(f) ==
  /\ UNCHANGED answer
  /\ gone' = gone \cup {f}
  /\ names' = {t \in names : t[1] # f}

\* A request was about a directory that is gone, or its number is used again.
Elsewhere(S, f) == {t \in S : t[1] # f}
Confuse(f) ==
  /\ f \in gone /\ UNCHANGED gone
  /\ Elsewhere(names', f) = Elsewhere(names, f)
  /\ answer' \in {answer, NoAnswer} \/ answer'.dir = f

Next ==
  \/ Refuse
  \/ \E d \in Fids, n \in Names, f \in Fids : Lookup(d, n, f) \/ Insert(d, n, f) \/ Remove(d, n, f)
  \/ \E f, d \in Fids : Make(f, d)
  \/ \E f \in Fids : Drop(f) \/ Confuse(f)

Spec == Init /\ [][Next]_vars
=============================================================================
