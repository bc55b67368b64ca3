------------------------------ MODULE MCLayers ------------------------------
(* Every layer over two stores, for the model checker.                          *)
EXTENDS Layers, TLC

Setup(layers, below, n) == [stack |-> layers, below |-> below, nblocks |-> n]

EverySetup ==
  {Setup(<<"raid0">>, <<"other", "other">>, 2),
   Setup(<<"part", "raid0">>, <<"ram", "file">>, 2),
   Setup(<<"raid1">>, <<"other", "other">>, 2),
   Setup(<<"check", "raid1">>, <<"other", "other">>, 1),
   Setup(<<"stat", "debug", "combine">>, <<"file", "other">>, 1),
   Setup(<<"map", "combine">>, <<"ram", "other">>, 1),
   Setup(<<"prot", "combine">>, <<"other", "file">>, 1),
   Setup(<<"check", "one">>, <<"file">>, 2),
   Setup(<<"prot", "one">>, <<"server">>, 2),
   Setup(<<"check", "debug", "prot", "one">>, <<"server">>, 1)}

\* The inode of a disk server is 0.
AskedFor == [s \in Stacks |-> IF Last(s) = "one" THEN 0 ELSE 1]

TwoPartitions == <<2, 2>>
FourAndTwo == [i \in Inos |-> IF i = 0 THEN 4 ELSE 2]

\* The mapping is computed once in every state.
VARIABLE seen

See == seen' = AsStore'

MCNext ==
  \/ Request /\ See
  \/ ReadBlock /\ See
  \/ WriteBlock /\ See
  \/ SetSizeBelow /\ See
  \/ SyncBelow /\ See
  \/ Serve /\ See
  \/ Complete /\ See
  \/ Fault /\ See
  \/ Return /\ See
  \/ Stop /\ See

MCInit == Init /\ seen = AsStore
MCSpec == MCInit /\ [][MCNext]_<<vars, seen>>

\* Every stack is a block store: calls reach the block they are about, and no other
\* (block_store.h:9-41).
Store == INSTANCE BlockStore
  WITH content <- seen.content, stable <- seen.stable, size <- seen.size
IsBlockStore == Store!Spec
=============================================================================
