---------------------------- MODULE MCGetOrInsert ----------------------------
\* GetOrInsert on small instances: the named entity lives under its parent's
\* group, the entity of the same name without parent in a group of its own.
EXTENDS GetOrInsert, TLC

CONSTANTS g1, g2

MCKey == {RootKey, ChildKey}
MCGroupOf == [k \in MCKey |-> IF k = RootKey THEN g1 ELSE g2]
MCTxId == Request \X (1..MaxCalls)
MCValue == MCTxId \cup {Other}
=============================================================================
