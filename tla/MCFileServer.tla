---------------------------- MODULE MCFileServer ----------------------------
(* A file server with few files, for the model checker.                    *)
EXTENDS FileServer

CONSTANTS c1, c2

UidOf    == c1 :> 1 @@ c2 :> 0
OpsOf    == c1 :> {"create", "delete", "read", "write", "setsize", "stat", "chmod"} @@ c2 :> {"sync", "chown"}
MCModes  == {{"ownerRead", "ownerWrite", "otherRead"}}
MCTexts  == {<<1, 1>>}
=============================================================================
