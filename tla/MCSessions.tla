----------------------------- MODULE MCSessions -----------------------------
(* A table of the entries that the others depend on, for the model checker.      *)
EXTENDS Sessions

SmallTable  == <<"etc", "bin", "etc_passwd", "login", "shell">>
SmallParent == [etc |-> "root", bin |-> "root", etc_passwd |-> "etc", login |-> "bin",
                shell |-> "bin"]
=============================================================================
