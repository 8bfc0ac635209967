---------------------------- MODULE MCTaskQueue ----------------------------
\* TaskQueue on small instances: one entity group.
EXTENDS TaskQueue, TLC

CONSTANTS g1

MCGroupOf == [k \in Key |-> g1]
MCValue == TxId \cup {Direct}
MCBatches == (SUBSET Key) \ {{}}

Symmetry == Permutations(Request) \cup Permutations(TxId) \cup Permutations(Task)
=============================================================================
