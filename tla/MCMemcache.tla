---------------------------- MODULE MCMemcache ----------------------------
\* Memcache on small instances.
EXTENDS Memcache, TLC

Symmetry == Permutations(Request) \cup Permutations(Domain)
=============================================================================
