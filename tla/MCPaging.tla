------------------------------- MODULE MCPaging -------------------------------
(***************************************************************************)
(* A small instance of Paging: a page of the executable and one of data and *)
(* stack.                                                                  *)
(***************************************************************************)
EXTENDS Paging, TLC

CONSTANTS p1, p2

MCProcs   == {p1, p2}
MCInExec  == {1}
MCProgram == [v \in MCInExec |-> 1]
Symmetry  == Permutations(MCProcs)
=============================================================================
