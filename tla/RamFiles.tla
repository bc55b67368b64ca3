------------------------------ MODULE RamFiles ------------------------------
(***************************************************************************)
(* The RAM file server (grass/ramfilesvr.c): what a request of lib/file.c   *)
(* does to its table of files and what it answers.  The server handles one  *)
(* request at a time and asks nobody else anything before it answers        *)
(* (sys_gettime() apart), so that a request is one step of its client.      *)
(***************************************************************************)
EXTENDS Integers, Sequences, FiniteSets, FiniteSetsExt

CONSTANTS
  MaxFiles,   \* MAX_FILES
  Garbage     \* memory that m_realloc() returned and nobody wrote

ASSUME MaxFilesAssumption == MaxFiles \in Nat \ {0, 1}

\* File 0 only holds the time.
FileNo == 1..MaxFiles - 1

\* A struct file; its size is the length of its contents.
NoFile == [alloc |-> FALSE, uid |-> 0, mode |-> {}, cells |-> <<>>]

Answer(files, ok, value) == [files |-> files, ok |-> ok, value |-> value]
Refuse(files)            == Answer(files, FALSE, 0)

\* ramfile_read_allowed(), ramfile_write_allowed()
Permits(file, uid, owner, other) ==
  uid = 0 \/ (IF uid = file.uid THEN owner ELSE other) \in file.mode
MayRead(file, uid)  == Permits(file, uid, "ownerRead", "otherRead")
MayWrite(file, uid) == Permits(file, uid, "ownerWrite", "otherWrite")

\* The number is checked first or, reading, after the table was indexed with it.
Good(files, f) == f \in FileNo /\ files[f].alloc

\* ramfile_do_create(): a deleted file has no contents.
CreateFile(files, uid, mode) ==
  LET free == {f \in FileNo : ~files[f].alloc}
  IN  IF free = {} THEN Refuse(files)
      ELSE Answer([files EXCEPT ![Min(free)].alloc = TRUE, ![Min(free)].uid = uid,
                                ![Min(free)].mode = mode], TRUE, Min(free))

\* ramfile_do_delete()
DeleteFile(files, uid, f) ==
  IF ~Good(files, f) THEN Refuse(files)
  ELSE IF ~MayWrite(files[f], uid) THEN Refuse(files)
  ELSE Answer([files EXCEPT ![f].alloc = FALSE, ![f].cells = <<>>], TRUE, 0)

\* ramfile_do_read(): at most n cells from x on.
ReadFile(files, uid, f, x, n) ==
  IF ~Good(files, f) THEN Refuse(files)
  ELSE IF ~MayRead(files[f], uid) THEN Refuse(files)
  ELSE Answer(files, TRUE, SubSeq(files[f].cells, x + 1, Min({x + n, Len(files[f].cells)})))

\* ramfile_put(): a hole is what m_realloc() left there.
Put(cells, x, text) ==
  [i \in 1..Max({Len(cells), x + Len(text)}) |->
     IF i - x \in DOMAIN text THEN text[i - x]
     ELSE IF i <= Len(cells) THEN cells[i] ELSE Garbage]

\* ramfile_do_write()
WriteFile(files, uid, f, x, text) ==
  IF ~Good(files, f) THEN Refuse(files)
  ELSE IF ~MayWrite(files[f], uid) THEN Refuse(files)
  ELSE Answer([files EXCEPT ![f].cells = Put(@, x, text)], TRUE, 0)

\* ramfile_do_setsize(): a file only gets smaller.
SetFileSize(files, uid, f, n) ==
  IF ~Good(files, f) THEN Refuse(files)
  ELSE IF n > Len(files[f].cells) \/ ~MayWrite(files[f], uid) THEN Refuse(files)
  ELSE Answer([files EXCEPT ![f].cells = SubSeq(@, 1, n)], TRUE, 0)

\* ramfile_do_stat()
StatFile(files, uid, f) ==
  IF ~Good(files, f) THEN Refuse(files)
  ELSE IF ~MayRead(files[f], uid) THEN Refuse(files)
  ELSE Answer(files, TRUE, files[f])

\* ramfile_do_chown(), ramfile_do_chmod()
ChownFile(files, uid, f, owner) ==
  IF ~Good(files, f) \/ uid # 0 THEN Refuse(files)
  ELSE Answer([files EXCEPT ![f].uid = owner], TRUE, 0)
ChmodFile(files, uid, f, mode) ==
  IF ~Good(files, f) THEN Refuse(files)
  ELSE IF uid \notin {0, files[f].uid} THEN Refuse(files)
  ELSE Answer([files EXCEPT ![f].mode = mode], TRUE, 0)
=============================================================================
