------------------------- MODULE MCRunInTransaction -------------------------
\* RunInTransaction on small instances: two requests, two entity groups.
EXTENDS RunInTransaction, TLC

CONSTANTS k1, k2, k3, g1, g2

MCGroupOf == [k \in Key |-> IF k = k3 THEN g2 ELSE g1]
MCValue == TxId \cup {Direct}

\* All lists; one list within a group, one of one key and one over both groups.
AllBatches == (SUBSET Key) \ {{}}
FlatBatches == {{k1, k2}, {k3}, {k2, k3}}

Symmetry == Permutations(Request) \cup Permutations(TxId)
=============================================================================
