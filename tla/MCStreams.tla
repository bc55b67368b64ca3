------------------------------ MODULE MCStreams ------------------------------
(* Programs and three files, for the model checker: a program with one      *)
(* stream, one with two and shared descriptors, a reader with a writer.     *)
EXTENDS Streams

CONSTANTS c1, c2, reader, writer

A == "a"
File(mode, cells) == [alloc |-> TRUE, uid |-> 1, mode |-> mode, cells |-> cells]
FilesOf == <<File({"ownerRead", "ownerWrite"}, <<>>),
             File({"ownerRead", "ownerWrite"}, <<A, NL, A>>),
             File({"ownerRead"}, <<A>>)>>
UidOf == [c \in Clients |-> 1]
Output == 0 :> [fid |-> 1, writes |-> TRUE, mode |-> "line"]
StandardOf == c1 :> <<>> @@ c2 :> Output @@ reader :> <<>> @@ writer :> Output
O(f, mode) == [fid |-> f, mode |-> mode]
OpensOf == c1 :> {O(2, "w"), O(2, "w+"), O(3, "r")} @@ c2 :> {O(3, "w+")}
           @@ reader :> {O(1, "r")} @@ writer :> {}
OpsOf == c1 :> {"read", "write", "seek", "setvbuf", "close", "sync"}
         @@ c2 :> {"write", "dup", "dup2", "close", "sync", "exit"}
         @@ reader :> {"read", "gets", "seek", "close"} @@ writer :> {"write", "exit"}
NFptrsOf == c1 :> 1 @@ c2 :> 2 @@ reader :> 1 @@ writer :> 1
TextsOf == {<<A>>, <<A, NL>>}
ItemsOf == {[size |-> 1, n |-> 2], [size |-> 2, n |-> 1]}
W(whence, x) == [whence |-> whence, x |-> x]
SeeksOf == {W("set", 0), W("set", 1), W("cur", 0), W("cur", 1), W("end", 0)}
=============================================================================
