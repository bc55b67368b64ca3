------------------------------ MODULE MCKernel ------------------------------
(* Three slots, two priority levels, for the model checker.                *)
EXTENDS Kernel

QuantumOf == [l \in Level |-> 1]

\* What the future depends on: the ticks of a process that is not running, the
\* server of one that is in no RPC, and what a zombie had pending are never read.
View ==
  LET c == k.current
      dead == {s \in Slot : k.state[s] = "zombie"}
  IN  <<[k EXCEPT !.ticks  = @[c],
                  !.server = [s \in Slot |-> IF k.recv[s] = "reply" THEN @[s] ELSE 0],
                  !.level  = [s \in Slot |-> IF s \in dead THEN 0 ELSE @[s]],
                  !.waiting = [s \in Slot |-> IF s \in dead THEN {} ELSE @[s]],
                  !.alarm  = @ \ dead,
                  !.recv   = [s \in Slot |-> IF s \in dead THEN "none" ELSE @[s]],
                  !.owner  = [s \in Slot |-> IF s \in dead THEN 0 ELSE @[s]],
                  !.msgs   = [s \in Slot |-> IF s \in dead THEN NoMsgs ELSE @[s]]],
        ctl, shutting>>
=============================================================================
