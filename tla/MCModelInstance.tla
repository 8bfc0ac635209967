--------------------------- MODULE MCModelInstance ---------------------------
\* ModelInstance on small instances: every key is a root, a group of its own.
EXTENDS ModelInstance, TLC

CONSTANT Dates

MCKey == NameKey \cup IdKey
MCGroupOf == [k \in MCKey |-> k]
MCValue == Dates \cup {Other}

Symmetry == Permutations(IdKey) \cup Permutations(TxId) \cup Permutations(Instance)
=============================================================================
