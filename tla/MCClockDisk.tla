----------------------------- MODULE MCClockDisk -----------------------------
(* Two cached blocks over a disk of two inodes, for the model checker.           *)
EXTENDS ClockDisk, TLC

MaxSizeOf == [i \in Inos |-> 2]

Symmetry == Permutations(Data)

\* What the last call returned has no future.
View == <<wt, cache, recent, clock_hand, req, op, disk, size, faults>>
=============================================================================
