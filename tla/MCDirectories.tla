---------------------------- MODULE MCDirectories ----------------------------
(* Programs of the user of a home directory in a directory of the super-user,  *)
(* and of the super-user, for the model checker.                              *)
EXTENDS Directories

CONSTANTS c1, c2

UidOf  == c1 :> 1 @@ c2 :> 0
Home   == <<[name |-> "h.dir", uid |-> 1]>>
C(op, path) == [op |-> op, path |-> path]
CallsOf ==
  c1 :> {C("write", <<"h.dir", "a">>), C("remove", <<"h.dir", "a">>), C("remove", <<"h.dir">>),
         C("mkdir", <<"h.dir", "d.dir">>), C("write", <<"a">>)}
  @@ c2 :> {C("write", <<"h.dir", "a">>), C("remove", <<"h.dir", "a">>), C("read", <<"h.dir", "a">>),
            C("write", <<"long">>)}
MCMode == {"ownerRead", "ownerWrite", "otherRead"}
=============================================================================
